---- MODULE Spec2Model ----
(***************************************************************************)
(* Model of the snapshot service of the Bloch-sphere simulator backend:    *)
(* SnapshotService (backend/app/domain/services.py) with its collaborators *)
(* the simulation engine (adapters/simulator_qiskit.py, qiskit_common.py), *)
(* the exporter and the circuit repository.                                *)
(*                                                                         *)
(* Every coroutine call of the service is a task.  A task runs without     *)
(* interruption between two awaits of a collaborator; at an await of a     *)
(* collaborator (simulate, export_qasm, export_json, repository.save) the  *)
(* event loop may run another task.                                        *)
(*                                                                         *)
(* Optional[T] is modelled as a sequence: None is << >>, a present value v *)
(* is <<v>>.  Noise strengths are integers (hundredths).                   *)
(***************************************************************************)
EXTENDS Integers, Sequences, FiniteSets, Bags, TLC

VARIABLES
    snapshot_cache,   \* SnapshotService._snapshot_cache: key -> tuple of snapshots
    cache_hits,       \* SnapshotService._cache_hits
    cache_misses,     \* SnapshotService._cache_misses
    exporter,         \* SnapshotService._exporter is configured (TRUE) or None (FALSE)
    repository,       \* rows written by the repository, in order; the id of a row is its index
    tasks,            \* the coroutine calls of the service: position and local variables
    sim_calls,        \* bag of cache keys: the invocations of SimulationPort.simulate
    sim_done,         \* bag of cache keys: the invocations of simulate that returned snapshots
    repo_calls,       \* number of invocations of CircuitRepositoryPort.save
    fetches,          \* number of calls of _fetch_snapshots
    fetched,          \* bag of cache keys: the calls of _fetch_snapshots that returned a tuple
    called,           \* bag of <<operation, cache key>>: the service calls started
    stored,           \* the requests whose snapshots were put in the cache
    calls,            \* number of service calls started
    mutable_circuit,  \* a Circuit object that its owner edits with append, insert, remove
    engine_out,       \* None, or the last run of the engine on mutable_circuit
    bloch_vector,     \* None, or the BlochVector constructed last
    bloch_payload,    \* None, or the "bloch" entry of the snapshot payload saved last
    sample_sequence,  \* a list of outcomes handed to _analyze_runs
    run_analysis,     \* None, or what _analyze_runs returned for sample_sequence
    call_limit,       \* number of service calls the callers may start
    measurement,      \* None, or the call of measure that returned last
    edited_at,        \* the number of calls started when mutable_circuit was last edited
    sqlite_table,     \* the rows of the table circuits of a SQLiteCircuitRepository
    memory_store,     \* the _store of an InMemoryCircuitRepository
    saved_args,       \* the arguments of the calls of save that returned, with adapter and id
    repository_call,  \* None, or the call of an adapter's save or load made last
    service_global,   \* dependencies._service: None, or the SnapshotService it refers to
    connected,        \* _repository._connected
    constructed,      \* number of SnapshotService objects constructed
    db_connects,      \* calls of _database.connect() since the database was disconnected
    handlers,         \* the request handlers and the lifespan, each at an await or idle
    requests_made     \* number of calls the handlers have started

service == <<snapshot_cache, cache_hits, cache_misses, exporter>>
observed == <<sim_calls, sim_done, repo_calls, fetches, fetched, called, stored>>
bench == <<mutable_circuit, engine_out, bloch_vector, bloch_payload>>
analysis == <<sample_sequence, run_analysis>>
callers == <<call_limit, measurement>>
adapters == <<sqlite_table, memory_store, saved_args, repository_call>>
deps == <<service_global, connected, constructed, db_connects, handlers, requests_made>>
extras == <<edited_at, adapters, deps>>
others == <<analysis, callers, extras>>
vars == <<service, repository, tasks, observed, calls, bench, others>>

----------------------------------------------------------------------------
(* Bounds of the model *)

NumTasks == 2
MaxCalls == 2
MaxGates == 2
MaxSamples == 5
MaxShots == 2

Task == 1..NumTasks

----------------------------------------------------------------------------
(* Optional values *)

None == << >>
Some(v) == <<v>>
IsNone(o) == o = None
Get(o) == o[1]

\* float(value or 0.0)
OrZero(value) == IF IsNone(value) THEN 0 ELSE Get(value)

----------------------------------------------------------------------------
(* Data model: domain/models.py, domain/noise.py *)

Gate(name, targets, controls, parameters, metadata) ==
    [name |-> name, targets |-> targets, controls |-> controls,
     parameters |-> parameters, metadata |-> metadata]

Circuit(qubit_count, gates, global_phase) ==
    [qubit_count |-> qubit_count, gates |-> gates, global_phase |-> global_phase]

NoiseConfig(amplitude_damping, phase_damping, depolarizing) ==
    [amplitude_damping |-> amplitude_damping, phase_damping |-> phase_damping,
     depolarizing |-> depolarizing]

\* NoiseConfig.enabled
enabled(noise) ==
    \E value \in {noise.amplitude_damping, noise.phase_damping, noise.depolarizing} :
        ~IsNone(value) /\ Get(value) > 0

\* BlochVector: a frozen dataclass of three floats (hundredths)
BlochVector(x, y, z) == [x |-> x, y |-> y, z |-> z]

\* Snapshot: statevector and density_matrix are None or the state and the matrix.  The
\* fields computed from the reduced density matrix (bloch, probabilities, purity,
\* bloch_radius) are functions of density_matrix and focus_qubit and are left out.
Snapshot(step, statevector, density_matrix, focus_qubit, metadata) ==
    [step |-> step, statevector |-> statevector, density_matrix |-> density_matrix,
     focus_qubit |-> focus_qubit, metadata |-> metadata]

----------------------------------------------------------------------------
(* Simulation engine: adapters/qiskit_common.py, adapters/simulator_qiskit.py *)

\* str.upper() on the gate names of the model
Upper(name) ==
    CASE name = "h" -> "H"
      [] name = "x" -> "X"
      [] name = "cx" -> "CX"
      [] OTHER -> name

SingleQubitNames == {"I", "X", "Y", "Z", "H", "S", "SDG", "T", "TDG", "SX", "SXDG", "P", "RESET"}
RotationNames == {"RX", "RY", "RZ"}
NoisePlaceholders == {"DEPOLARIZING", "AMP_DAMP", "PHASE_DAMP"}
MeasureAnnotations == {"MEASURE_Z", "MEASURE_X", "MEASURE_Y"}

Range(seq) == {seq[i] : i \in 1..Len(seq)}

\* no exception
Ok == [type |-> "ok", message |-> << >>]

Exception(type, message) == [type |-> type, message |-> message]

\* the qubits the gate hands to the QuantumCircuit
Qubits(gate) == Range(gate.targets) \cup Range(gate.controls)

\* the QuantumCircuit of num_qubits qubits refuses an index it does not have
OutOfRange(num_qubits, qubits) == \E qubit \in qubits : qubit >= num_qubits

\* apply_gate_to_circuit on a QuantumCircuit of num_qubits qubits: Ok, or the exception
\* the gate raises.  The daggered spellings of SDG, TDG, SXDG are left out; a qubit
\* index the QuantumCircuit does not have makes its method raise CircuitError.
apply_gate_to_circuit(num_qubits, gate) ==
    LET name == Upper(gate.name)
        targets == gate.targets
        controls == gate.controls
        params == gate.parameters
        applied(qubits) == IF OutOfRange(num_qubits, qubits)
                           THEN Exception("CircuitError", <<"Index out of range">>)
                           ELSE Ok
    IN  CASE name \in SingleQubitNames -> applied(Range(targets))
          [] name \in RotationNames ->
                IF Len(params) = 0
                THEN Exception("IndexError", <<"list index out of range">>)
                ELSE applied(Range(targets))
          [] name \in {"CX", "CNOT"} ->
                IF Len(controls) # 1 \/ Len(targets) # 1
                THEN Exception("ValueError", <<"CX requires one control and one target">>)
                ELSE IF Range(controls) \cap Range(targets) # {}
                     THEN Exception("ValueError",
                                    <<"Control and target must be distinct for CX">>)
                     ELSE applied(Qubits(gate))
          [] name = "CZ" ->
                IF Len(controls) # 1 \/ Len(targets) # 1
                THEN Exception("ValueError", <<"CZ requires one control and one target">>)
                ELSE IF Range(controls) \cap Range(targets) # {}
                     THEN Exception("ValueError",
                                    <<"Control and target must be distinct for CZ">>)
                     ELSE applied(Qubits(gate))
          [] name \in NoisePlaceholders -> Ok
          [] name \in MeasureAnnotations -> Ok
          [] OTHER -> Exception("ValueError", <<"Unsupported gate: ", gate.name>>)

\* A matrix or state vector is the sequence of the operations that produced it from
\* the all-zero state: gates and noise channels, in the order applied.
AllZero == << >>

\* evolve(single_gate): the QuantumCircuit of a pseudo-gate is empty
evolve(matrix, gate) ==
    IF Upper(gate.name) \in NoisePlaceholders \cup MeasureAnnotations
    THEN matrix
    ELSE Append(matrix, <<"gate", Upper(gate.name), gate.targets, gate.controls,
                          gate.parameters>>)

\* float(min(max(p, 0.0), 1.0)) in hundredths
ClampStrength(p) == IF p < 0 THEN 0 ELSE IF p > 100 THEN 100 ELSE p

\* the channels of one qubit with the two damping channels before the depolarizing one
QubitChannelsDampingFirst(noise, qubit) ==
    LET depol == OrZero(noise.depolarizing)
        amp == OrZero(noise.amplitude_damping)
        phase == OrZero(noise.phase_damping)
    IN  (IF amp > 0 THEN <<<<"amplitude_damping", ClampStrength(amp), qubit>>>> ELSE << >>)
        \o (IF phase > 0 THEN <<<<"phase_damping", ClampStrength(phase), qubit>>>> ELSE << >>)
        \o (IF depol > 0 THEN <<<<"depolarizing", ClampStrength(depol), qubit>>>> ELSE << >>)

\* the channels _apply_noise applies to one qubit, in order
QubitChannels(noise, qubit) ==
    LET depol == OrZero(noise.depolarizing)
        amp == OrZero(noise.amplitude_damping)
        phase == OrZero(noise.phase_damping)
    IN  (IF depol > 0 THEN <<<<"depolarizing", ClampStrength(depol), qubit>>>> ELSE << >>)
        \o (IF amp > 0 THEN <<<<"amplitude_damping", ClampStrength(amp), qubit>>>> ELSE << >>)
        \o (IF phase > 0 THEN <<<<"phase_damping", ClampStrength(phase), qubit>>>> ELSE << >>)

RECURSIVE ChannelsFrom(_, _, _)
\* for qubit in range(num_qubits), from `qubit` on
ChannelsFrom(noise, qubit, num_qubits) ==
    IF qubit >= num_qubits
    THEN << >>
    ELSE QubitChannels(noise, qubit) \o ChannelsFrom(noise, qubit + 1, num_qubits)

\* QiskitSimulationAdapter._apply_noise
apply_noise(density, noise, num_qubits) == density \o ChannelsFrom(noise, 0, num_qubits)

\* _build_snapshot: the fields of the snapshot the service and its callers read
build_snapshot(step, num_qubits, density, state, focus_qubit, metadata) ==
    LET lo == IF focus_qubit < num_qubits - 1 THEN focus_qubit ELSE num_qubits - 1
        focus == IF lo > 0 THEN lo ELSE 0
    IN  Snapshot(step, state, Some(density), focus, metadata)

\* metadata that carry the operands of the gate and not its name
GateMetadataUnnamed(gate) ==
    [gate |-> "GATE", targets |-> gate.targets, controls |-> gate.controls]

\* the metadata _simulate_all attaches to the snapshot of a gate step
GateMetadata(gate) ==
    [gate |-> gate.name, targets |-> gate.targets, controls |-> gate.controls]

InitMetadata == [gate |-> "INIT"]

\* the first gate of the circuit that raises in apply_gate_to_circuit, 0 if none
FirstFailing(num_qubits, gates) ==
    LET bad == {i \in 1..Len(gates) : apply_gate_to_circuit(num_qubits, gates[i]) # Ok}
    IN  IF bad = {} THEN 0 ELSE CHOOSE i \in bad : \A j \in bad : i <= j

\* if noise and noise.enabled
Noisy(noise) == ~IsNone(noise) /\ enabled(Get(noise))

RECURSIVE DensityAfter(_, _, _)
\* the local `density` of _simulate_all after idx gates
DensityAfter(circuit, noise, idx) ==
    IF idx = 0
    THEN AllZero
    ELSE LET evolved == evolve(DensityAfter(circuit, noise, idx - 1), circuit.gates[idx])
         IN  IF Noisy(noise)
             THEN apply_noise(evolved, Get(noise), circuit.qubit_count)
             ELSE evolved

\* a pure-state track that survives the noise: only its first value is looked at
StateKept(circuit, noise, idx) ==
    IF idx = 0 /\ ~IsNone(circuit.global_phase) /\ Get(circuit.global_phase) # 0
    THEN Some(<<<<"phase", Get(circuit.global_phase)>>>>)
    ELSE Some(AllZero)

RECURSIVE StateAfter(_, _, _)
\* the local `state` of _simulate_all after idx gates
StateAfter(circuit, noise, idx) ==
    IF idx = 0
    THEN IF ~IsNone(circuit.global_phase) /\ Get(circuit.global_phase) # 0
         THEN Some(<<<<"phase", Get(circuit.global_phase)>>>>)
         ELSE Some(AllZero)
    ELSE IF Noisy(noise)
         THEN None
         ELSE Some(evolve(Get(StateAfter(circuit, noise, idx - 1)), circuit.gates[idx]))

\* _simulate_all: [error, message, snapshots, evolved]; error is "" when the list is
\* returned; evolved counts the gates whose evolution was computed
simulate_all(circuit, noise, focus_qubit) ==
    LET num_qubits == circuit.qubit_count
        f0 == IF IsNone(focus_qubit) THEN 0 ELSE Get(focus_qubit)
        focus == IF f0 < 0 \/ f0 >= num_qubits THEN 0 ELSE f0
        failing == FirstFailing(num_qubits, circuit.gates)
        raised == apply_gate_to_circuit(num_qubits, circuit.gates[failing])
    IN  IF failing # 0
        THEN [error |-> raised.type, message |-> raised.message, snapshots |-> << >>,
              evolved |-> failing - 1]
        ELSE [error |-> "", message |-> << >>,
              snapshots |->
                [i \in 1..(Len(circuit.gates) + 1) |->
                    build_snapshot(i - 1, num_qubits,
                                   DensityAfter(circuit, noise, i - 1),
                                   StateAfter(circuit, noise, i - 1),
                                   focus,
                                   IF i = 1 THEN InitMetadata
                                            ELSE GateMetadata(circuit.gates[i - 1]))],
              evolved |-> Len(circuit.gates)]

\* QiskitSimulationAdapter.simulate
simulate(circuit, noise, focus_qubit) == simulate_all(circuit, noise, focus_qubit)

----------------------------------------------------------------------------
(* Exporter and repository collaborators *)

\* QiskitExportAdapter.export_qasm: [error, qasm]; _build_circuit applies every gate
export_qasm(circuit) ==
    LET failing == FirstFailing(circuit.qubit_count, circuit.gates)
    IN  IF failing # 0
        THEN [error |-> apply_gate_to_circuit(circuit.qubit_count, circuit.gates[failing]).type,
              qasm |-> None]
        ELSE [error |-> "",
              qasm |-> Some([qubits |-> circuit.qubit_count,
                             gates |-> [i \in 1..Len(circuit.gates) |->
                                           Upper(circuit.gates[i].name)]])]

\* QiskitExportAdapter.export_json: one entry per snapshot
export_json(snapshots) ==
    [i \in 1..Len(snapshots) |->
        [step |-> snapshots[i].step,
         focus_qubit |-> snapshots[i].focus_qubit,
         metadata |-> snapshots[i].metadata,
         statevector |-> snapshots[i].statevector,
         density_matrix |-> snapshots[i].density_matrix]]

\* the row SQLiteCircuitRepository.save inserts
Row(circuit, snapshots, name, focus_qubit) ==
    [circuit |-> circuit, snapshots |-> snapshots, name |-> name, focus_qubit |-> focus_qubit]

----------------------------------------------------------------------------
(* SnapshotService: domain/services.py *)


\* _cache_key fingerprinting the whole gate, metadata included
cache_key_with_metadata(circuit, noise, focus_qubit) ==
    LET noise_tuple ==
            IF IsNone(noise)
            THEN None
            ELSE <<OrZero(Get(noise).depolarizing),
                   OrZero(Get(noise).amplitude_damping),
                   OrZero(Get(noise).phase_damping)>>
    IN  <<circuit.qubit_count, circuit.global_phase, circuit.gates, noise_tuple, focus_qubit>>

\* a key taken from the Circuit object, whatever gates it holds
cache_key_of_object(circuit, noise, focus_qubit) ==
    <<circuit.qubit_count, circuit.global_phase, << >>,
      IF IsNone(noise)
      THEN None
      ELSE <<OrZero(Get(noise).depolarizing),
             OrZero(Get(noise).amplitude_damping),
             OrZero(Get(noise).phase_damping)>>,
      focus_qubit>>

\* SnapshotService._cache_key
cache_key(circuit, noise, focus_qubit) ==
    LET gate_fingerprint ==
            [i \in 1..Len(circuit.gates) |->
                <<circuit.gates[i].name, circuit.gates[i].targets,
                  circuit.gates[i].controls, circuit.gates[i].parameters>>]
        noise_tuple ==
            IF IsNone(noise)
            THEN None
            ELSE <<OrZero(Get(noise).depolarizing),
                   OrZero(Get(noise).amplitude_damping),
                   OrZero(Get(noise).phase_damping)>>
    IN  <<circuit.qubit_count, circuit.global_phase, gate_fingerprint, noise_tuple, focus_qubit>>

\* a lookup that tests the cached tuple for truth instead of `is not None`
InCacheIfTruthy(cache, key) == key \in DOMAIN cache /\ Len(cache[key]) > 0

\* dict.get(key) is not None
InCache(cache, key) == key \in DOMAIN cache

\* a cache of one entry: writing an entry evicts the others
StoreEvicting(cache, key, value) == [k \in {key} |-> value]

\* dict[key] = value
Store(cache, key, value) ==
    [k \in (DOMAIN cache) \cup {key} |-> IF k = key THEN value ELSE cache[k]]

\* sequence[start:]
SliceFrom(sequence, start) ==
    LET n == Len(sequence)
        first == IF start < 0
                 THEN (IF n + start > 0 THEN n + start ELSE 0)
                 ELSE (IF start < n THEN start ELSE n)
    IN  SubSeq(sequence, first + 1, n)

\* cached if start_step is None else cached[start_step:]
FromStep(cached, start_step) ==
    IF IsNone(start_step) THEN cached ELSE SliceFrom(cached, Get(start_step))

\* cache_stats reporting a hit rate of 0.0 before any request
cache_stats_zero_rate ==
    LET total == cache_hits + cache_misses
    IN  [entries |-> Cardinality(DOMAIN snapshot_cache),
         hits |-> cache_hits,
         misses |-> cache_misses,
         hit_rate |-> IF total # 0 THEN <<cache_hits, total>> ELSE <<0, 1>>]

\* SnapshotService.cache_stats; hit_rate is the fraction <<numerator, denominator>>
cache_stats ==
    LET total == cache_hits + cache_misses
    IN  [entries |-> Cardinality(DOMAIN snapshot_cache),
         hits |-> cache_hits,
         misses |-> cache_misses,
         hit_rate |-> IF total # 0 THEN <<cache_hits, total>> ELSE <<1, 1>>]

----------------------------------------------------------------------------
(* Inputs of the calls *)

GateH == Gate("H", <<0>>, << >>, << >>, {})
GateHLabelled == Gate("H", <<0>>, << >>, << >>, {<<"label", "first">>})
GateX == Gate("X", <<0>>, << >>, << >>, {})
GateY == Gate("Y", <<0>>, << >>, << >>, {})
GateX1 == Gate("X", <<1>>, << >>, << >>, {})
GateX1Controlled == Gate("X", <<1>>, <<0>>, << >>, {})
GateRZ(angle) == Gate("RZ", <<0>>, << >>, <<angle>>, {})
GateFoo == Gate("FOO", <<0>>, << >>, << >>, {})

CircuitHX == Circuit(1, <<GateH, GateX>>, None)
CircuitFoo == Circuit(1, <<GateH, GateFoo>>, None)

\* the circuits of the calls
Circuits == {CircuitHX, CircuitFoo}

NoiseDepolarizing == NoiseConfig(None, None, Some(20))

Noises == {None, Some(NoiseDepolarizing)}
FocusQubits == {None, Some(0)}
StartSteps == {-1, 1, 2}

\* circuits that differ from CircuitHX, or from one another, in one component
KeyCircuits ==
    {Circuit(1, <<GateHLabelled, GateX>>, None),
     Circuit(2, <<GateH, GateX>>, None),
     Circuit(1, <<GateH, GateX>>, Some(1)),
     Circuit(1, <<GateH, GateY>>, None),
     Circuit(1, <<GateX, GateH>>, None),
     Circuit(1, <<GateH>>, None),
     Circuit(2, <<GateH, GateX1>>, None),
     Circuit(2, <<GateH, GateX1Controlled>>, None),
     Circuit(1, <<GateH, GateRZ(1)>>, None),
     Circuit(1, <<GateH, GateRZ(2)>>, None)}

\* noise configurations: absent strengths, zero strengths, one strength per channel
KeyNoises ==
    {Some(NoiseConfig(None, None, None)),
     Some(NoiseConfig(Some(0), None, Some(0))),
     Some(NoiseConfig(Some(20), None, None)),
     Some(NoiseConfig(None, Some(20), None))}

Request(circuit, noise, focus_qubit) ==
    [circuit |-> circuit, noise |-> noise, focus_qubit |-> focus_qubit]

\* the requests of the calls
Requests ==
    {Request(c, n, f) : c \in Circuits, n \in Noises, f \in FocusQubits}

\* Requests, and the requests that differ from (CircuitHX, None, None) in one argument
KeyRequests ==
    Requests
    \cup {Request(c, None, None) : c \in KeyCircuits}
    \cup {Request(CircuitHX, n, None) : n \in KeyNoises}
    \cup {Request(CircuitHX, None, Some(1))}

\* the requests with a focus qubit
FocusedRequests == {r \in Requests : r.focus_qubit = Some(0)}

\* the input sets of a specification
Inputs(gen_requests, requests, start_steps) ==
    [gen_requests |-> gen_requests, requests |-> requests, start_steps |-> start_steps,
     measures |-> {[basis |-> "Z", shots |-> 1, seed |-> Some(1)]},
     shares |-> BOOLEAN, saves |-> TRUE]

\* the snapshot sequences a caller may hand to save for a circuit
SaveInputs(circuit, focus_qubit) ==
    {<< >>} \cup {simulate(circuit, noise, focus_qubit).snapshots : noise \in Noises}

----------------------------------------------------------------------------
(* The numbers of a snapshot.  A density matrix is the function from <<row, column>> to *)
(* its entry, a real number in units of 1/Unit; qubit q is bit q of the row and column *)
(* index, as in qiskit.  The gates with real matrices (I, X, Z, H, CX, CZ) and the      *)
(* three channels are evaluated; divisions round towards zero.                          *)

\* the number 1.0
Unit == 4 * 1000

Pow2(n) == 2 ^ n

Bit(index, qubit) == (index \div Pow2(qubit)) % 2

Flip(index, qubit) ==
    IF Bit(index, qubit) = 1 THEN index - Pow2(qubit) ELSE index + Pow2(qubit)

WithBit(index, qubit, bit) == IF Bit(index, qubit) = bit THEN index ELSE Flip(index, qubit)

Dim(num_qubits) == 0..(Pow2(num_qubits) - 1)

\* DensityMatrix.from_label("0" * num_qubits)
ZeroDensity(num_qubits) ==
    [cell \in Dim(num_qubits) \X Dim(num_qubits) |->
        IF cell = <<0, 0>> THEN Unit ELSE 0]

\* the sign Z on the qubit gives the basis state
Sign(index, qubit) == IF Bit(index, qubit) = 1 THEN -1 ELSE 1

\* X rho X, Z rho Z, H rho H on one qubit
ConjugateX(rho, qubit) ==
    [cell \in DOMAIN rho |-> rho[<<Flip(cell[1], qubit), Flip(cell[2], qubit)>>]]

ConjugateZ(rho, qubit) ==
    [cell \in DOMAIN rho |-> Sign(cell[1], qubit) * Sign(cell[2], qubit) * rho[cell]]

ConjugateH(rho, qubit) ==
    [cell \in DOMAIN rho |->
        LET term(a, b) ==
                (IF Bit(cell[1], qubit) = 1 /\ a = 1 THEN -1 ELSE 1)
                    * (IF Bit(cell[2], qubit) = 1 /\ b = 1 THEN -1 ELSE 1)
                    * rho[<<WithBit(cell[1], qubit, a), WithBit(cell[2], qubit, b)>>]
        IN  (term(0, 0) + term(0, 1) + term(1, 0) + term(1, 1)) \div 2]

\* CX and CZ
ControlledX(index, control, target) ==
    IF Bit(index, control) = 1 THEN Flip(index, target) ELSE index

ConjugateCX(rho, control, target) ==
    [cell \in DOMAIN rho |->
        rho[<<ControlledX(cell[1], control, target), ControlledX(cell[2], control, target)>>]]

ControlledSign(index, control, target) ==
    IF Bit(index, control) = 1 /\ Bit(index, target) = 1 THEN -1 ELSE 1

ConjugateCZ(rho, control, target) ==
    [cell \in DOMAIN rho |->
        ControlledSign(cell[1], control, target) * ControlledSign(cell[2], control, target)
            * rho[cell]]

RECURSIVE OnEach(_, _, _)
\* a one-qubit gate of qiskit applied to a list of qubits
OnEach(name, rho, qubits) ==
    IF qubits = << >>
    THEN rho
    ELSE LET rest == OnEach(name, rho, SubSeq(qubits, 1, Len(qubits) - 1))
             qubit == qubits[Len(qubits)]
         IN  CASE name = "I" -> rest
               [] name = "X" -> ConjugateX(rest, qubit)
               [] name = "Z" -> ConjugateZ(rest, qubit)
               [] name = "H" -> ConjugateH(rest, qubit)

\* the Kraus channels of _depolarizing_channel, _amplitude_channel, _phase_channel;
\* strength in hundredths
Depolarized(rho, p, qubit) ==
    LET x == ConjugateX(rho, qubit)
        y == ConjugateX(ConjugateZ(rho, qubit), qubit)
        z == ConjugateZ(rho, qubit)
    IN  [cell \in DOMAIN rho |->
            ((400 - 3 * p) * rho[cell] + p * (x[cell] + y[cell] + z[cell])) \div 400]

\* floor of sqrt(1 - strength), in hundredths
Keep(strength) ==
    CHOOSE k \in 0..100 : k * k <= (100 - strength) * 100 /\ (k + 1) * (k + 1) > (100 - strength) * 100

AmplitudeDamped(rho, gamma, qubit) ==
    [cell \in DOMAIN rho |->
        LET a == Bit(cell[1], qubit)
            b == Bit(cell[2], qubit)
        IN  CASE a = 0 /\ b = 0 ->
                    rho[cell] + (gamma * rho[<<Flip(cell[1], qubit), Flip(cell[2], qubit)>>]) \div 100
              [] a = 1 /\ b = 1 -> ((100 - gamma) * rho[cell]) \div 100
              [] OTHER -> (Keep(gamma) * rho[cell]) \div 100]

PhaseDamped(rho, lam, qubit) ==
    [cell \in DOMAIN rho |->
        IF Bit(cell[1], qubit) = Bit(cell[2], qubit)
        THEN rho[cell]
        ELSE ((100 - lam) * rho[cell]) \div 100]

\* DensityMatrix.evolve by one operation of the matrix's history
Evolved(rho, op) ==
    CASE op[1] = "gate" /\ op[2] \in {"I", "X", "Z", "H"} -> OnEach(op[2], rho, op[3])
      [] op[1] = "gate" /\ op[2] \in {"CX", "CNOT"} -> ConjugateCX(rho, op[4][1], op[3][1])
      [] op[1] = "gate" /\ op[2] = "CZ" -> ConjugateCZ(rho, op[4][1], op[3][1])
      [] op[1] = "depolarizing" -> Depolarized(rho, op[2], op[3])
      [] op[1] = "amplitude_damping" -> AmplitudeDamped(rho, op[2], op[3])
      [] op[1] = "phase_damping" -> PhaseDamped(rho, op[2], op[3])

RECURSIVE DensityData(_, _)
\* the numbers of the density matrix that the operations made of the zero state
DensityData(matrix, num_qubits) ==
    IF matrix = << >>
    THEN ZeroDensity(num_qubits)
    ELSE Evolved(DensityData(SubSeq(matrix, 1, Len(matrix) - 1), num_qubits),
                 matrix[Len(matrix)])

\* a reduction that cuts the block of the focus qubit out of the matrix and sums nothing
partial_trace_block(rho, focus, num_qubits) ==
    [cell \in (0..1) \X (0..1) |-> rho[<<cell[1] * Pow2(focus), cell[2] * Pow2(focus)>>]]

\* qiskit partial_trace over every qubit but focus
partial_trace(rho, focus, num_qubits) ==
    [cell \in (0..1) \X (0..1) |->
        LET rows == {i \in Dim(num_qubits) : Bit(i, focus) = cell[1]}
            RECURSIVE Sum(_)
            Sum(left) ==
                IF left = {}
                THEN 0
                ELSE LET i == CHOOSE i \in left : TRUE
                     IN  rho[<<i, WithBit(i, focus, cell[2])>>] + Sum(left \ {i})
        IN  Sum(rows)]

\* _build_snapshot: the reduced matrix of the snapshot
Reduced(snapshot, num_qubits) ==
    LET density == DensityData(Get(snapshot.density_matrix), num_qubits)
    IN  IF num_qubits = 1
        THEN density
        ELSE partial_trace(density, snapshot.focus_qubit, num_qubits)

\* _build_snapshot: bloch, probabilities and purity of the snapshot, in units of 1/Unit
snapshot_bloch(snapshot, num_qubits) ==
    LET rho == Reduced(snapshot, num_qubits)
    IN  BlochVector(2 * rho[<<0, 1>>], 0, rho[<<0, 0>>] - rho[<<1, 1>>])

snapshot_probabilities(snapshot, num_qubits) ==
    LET rho == Reduced(snapshot, num_qubits)
    IN  <<rho[<<0, 0>>], rho[<<1, 1>>]>>

snapshot_purity(snapshot, num_qubits) ==
    LET rho == Reduced(snapshot, num_qubits)
    IN  (rho[<<0, 0>>] * rho[<<0, 0>>] + rho[<<0, 1>>] * rho[<<1, 0>>]
            + rho[<<1, 0>>] * rho[<<0, 1>>] + rho[<<1, 1>>] * rho[<<1, 1>>]) \div Unit

----------------------------------------------------------------------------
(* SnapshotService._analyze_runs *)

Outcomes == {"plus", "minus"}

\* the locals of _analyze_runs
RunState(longest_len, longest_value, current_len, switches) ==
    [longest_len |-> longest_len, longest_value |-> longest_value,
     current_len |-> current_len, switches |-> switches]

\* a loop body that lets a later run of the same length take over
ScanStepLastTieWins(st, prev, current) ==
    IF current = prev
    THEN [st EXCEPT !.current_len = @ + 1]
    ELSE IF st.current_len >= st.longest_len
         THEN RunState(st.current_len, prev, 1, st.switches + 1)
         ELSE RunState(st.longest_len, st.longest_value, 1, st.switches + 1)

\* a loop body that counts every adjacent pair as a switch
ScanStepCountingPairs(st, prev, current) ==
    IF current = prev
    THEN [st EXCEPT !.current_len = @ + 1, !.switches = @ + 1]
    ELSE IF st.current_len > st.longest_len
         THEN RunState(st.current_len, prev, 1, st.switches + 1)
         ELSE RunState(st.longest_len, st.longest_value, 1, st.switches + 1)

\* the body of `for prev, current in zip(sequence, sequence[1:])`
ScanStep(st, prev, current) ==
    IF current = prev
    THEN [st EXCEPT !.current_len = @ + 1]
    ELSE IF st.current_len > st.longest_len
         THEN RunState(st.current_len, prev, 1, st.switches + 1)
         ELSE RunState(st.longest_len, st.longest_value, 1, st.switches + 1)

RECURSIVE Scan(_, _)
\* the locals after the pairs (sequence[i - 1], sequence[i]) up to i = upto
Scan(sequence, upto) ==
    IF upto <= 1
    THEN RunState(1, sequence[1], 1, 0)
    ELSE ScanStep(Scan(sequence, upto - 1), sequence[upto - 1], sequence[upto])

\* SnapshotService._analyze_runs: <<longest_len, longest_value, switches>>
analyze_runs(sequence) ==
    IF Len(sequence) = 0
    THEN <<0, "", 0>>
    ELSE LET st == Scan(sequence, Len(sequence))
         IN  IF st.current_len > st.longest_len
             THEN <<st.current_len, sequence[Len(sequence)], st.switches>>
             ELSE <<st.longest_len, st.longest_value, st.switches>>

----------------------------------------------------------------------------
(* Tasks *)

\* max(-1.0, min(1.0, value))
ClampUnit(value) == IF value < -Unit THEN -Unit ELSE IF value > Unit THEN Unit ELSE value

\* `if value:` of an Optional[float]
Truthy(value) == ~IsNone(value) /\ Get(value) # 0

\* SnapshotService._apply_noise on the Bloch vector <<x, y, z>>
apply_bloch_noise(vec, noise) ==
    LET shrink == IF Truthy(noise.depolarizing)
                  THEN (IF 100 - 2 * Get(noise.depolarizing) > 0
                        THEN 100 - 2 * Get(noise.depolarizing) ELSE 0)
                  ELSE 100
        phase == IF Truthy(noise.phase_damping)
                 THEN (IF 100 - Get(noise.phase_damping) > 0
                       THEN 100 - Get(noise.phase_damping) ELSE 0)
                 ELSE 100
        x == (((vec[1] * shrink) \div 100) * phase) \div 100
        y == (((vec[2] * shrink) \div 100) * phase) \div 100
        z0 == (vec[3] * shrink) \div 100
        z == IF Truthy(noise.amplitude_damping)
             THEN (z0 * (100 - Get(noise.amplitude_damping))) \div 100
                      + (Get(noise.amplitude_damping) * Unit) \div 100
             ELSE z0
    IN  <<ClampUnit(x), ClampUnit(y), ClampUnit(z)>>

\* axis_map.get(basis.upper(), axis_map["Z"]) as the index of the component
Axis(basis) ==
    CASE Upper(basis) = "X" -> 1
      [] Upper(basis) = "Y" -> 2
      [] OTHER -> 3

\* the i-th uniform draw in [0, 1) of the generator seeded with rng
Uniform(rng, i) == (rng * 1201 + i * 2503 + 977) % Unit

\* a sampler that returns one sample too many
choice_one_more(rng, shots, p_plus) ==
    [i \in 1..(shots + 1) |-> IF Uniform(rng, i) < p_plus THEN "plus" ELSE "minus"]

\* rng.choice(["plus", "minus"], size=shots, p=[p_plus, p_minus])
choice(rng, shots, p_plus) ==
    [i \in 1..shots |-> IF Uniform(rng, i) < p_plus THEN "plus" ELSE "minus"]

CountOf(samples, outcome) == Cardinality({i \in 1..Len(samples) : samples[i] = outcome})

\* bloch = final.bloch or BlochVector(0.0, 0.0, 1.0), as <<x, y, z>>
bloch_vec(snapshot, num_qubits) ==
    IF IsNone(snapshot.density_matrix)
    THEN <<0, 0, Unit>>
    ELSE <<snapshot_bloch(snapshot, num_qubits).x, snapshot_bloch(snapshot, num_qubits).y,
           snapshot_bloch(snapshot, num_qubits).z>>

\* if noise and noise.enabled: bloch_vec = self._apply_noise(bloch_vec, noise)
with_noise(vec, noise) ==
    IF Noisy(noise) THEN apply_bloch_noise(vec, Get(noise)) ELSE vec

\* p_plus = 0.5 * (1 + dot), dot the clamped projection of the vector on the axis
probability_plus(vec, basis) == (Unit + ClampUnit(vec[Axis(basis)])) \div 2

\* the MeasurementResult of the samples; the mean of no samples (nan) is None, the
\* standard deviation is left out
MeasurementOf(step, basis, shots, p_plus, samples, plus, minus, runs) ==
    [step |-> step,
     basis |-> Upper(basis),
     shots |-> shots,
     counts |-> [plus |-> plus, minus |-> minus],
     probabilities |-> [plus |-> p_plus, minus |-> Unit - p_plus],
     overlay_vector |-> [axis |-> Axis(basis), sign |-> IF plus >= minus THEN 1 ELSE -1],
     samples |-> samples,
     mean |-> IF shots = 0 THEN None ELSE Some(((plus - minus) * Unit) \div shots),
     longest_run |-> runs[1],
     longest_symbol |-> runs[2],
     switches |-> runs[3]]

\* counts, and the runs of the samples
Counted(step, basis, shots, p_plus, samples) ==
    MeasurementOf(step, basis, shots, p_plus, samples, CountOf(samples, "plus"),
                  CountOf(samples, "minus"), analyze_runs(samples))

\* samples = rng.choice(...)
Sampled(step, basis, shots, rng, p_plus) ==
    Counted(step, basis, shots, p_plus, choice(rng, shots, p_plus))

\* SnapshotService.measure from `final = snapshots[-1]` on
MeasurementResult(snapshot, num_qubits, basis, shots, noise, rng) ==
    Sampled(snapshot.step, basis, shots, rng,
            probability_plus(with_noise(bloch_vec(snapshot, num_qubits), noise), basis))

NewTask(op, circuit, noise, focus_qubit, start_step, share, snapshots) ==
    [pc |-> "running", op |-> op, circuit |-> circuit, noise |-> noise,
     focus_qubit |-> focus_qubit, start_step |-> start_step, share |-> share,
     snapshots |-> snapshots, qasm |-> None, snapshot_json |-> None,
     hit |-> "none", trace |-> << >>, saved |-> None,
     status |-> "pending", error |-> "", ret |-> None,
     basis |-> "Z", shots |-> 0, seed |-> None, rng |-> 0]

IdleTask ==
    [pc |-> "idle", op |-> "none", circuit |-> None, noise |-> None,
     focus_qubit |-> None, start_step |-> None, share |-> FALSE,
     snapshots |-> << >>, qasm |-> None, snapshot_json |-> None,
     hit |-> "none", trace |-> << >>, saved |-> None,
     status |-> "pending", error |-> "", ret |-> None,
     basis |-> "Z", shots |-> 0, seed |-> None, rng |-> 0]

\* return value
Return(tk, value) == [tk EXCEPT !.pc = "idle", !.status = "returned", !.ret = value]

\* raise error
Raise(tk, error) == [tk EXCEPT !.pc = "idle", !.status = "raised", !.error = error]

\* measure taking the first snapshot for the final one
first(snapshots) == snapshots[1]

\* final = snapshots[-1]
final(snapshots) == snapshots[Len(snapshots)]

\* the caller of _fetch_snapshots, from the return of _fetch_snapshots with the tuple
\* cached; tk.snapshots keeps the tuple
after_fetch(tk, cached) ==
    LET snapshots == FromStep(cached, tk.start_step)
        got == [tk EXCEPT !.snapshots = cached]
    IN  CASE tk.op \in {"generate", "regenerate_from"} ->
                Return(got, snapshots)
          [] tk.op = "measure" ->
                IF Len(snapshots) = 0
                THEN Raise(got, "IndexError")
                ELSE Return(got, MeasurementResult(final(snapshots), tk.circuit.qubit_count,
                                                   tk.basis, tk.shots, tk.noise, tk.rng))
          [] tk.op = "export" ->
                [got EXCEPT !.pc = "export_qasm", !.trace = Append(@, "export_qasm")]

\* _fetch_snapshots keeping only the suffix it was asked for
CachedSuffix(snapshots, start_step) == FromStep(snapshots, start_step)

\* cached_tuple = tuple(snapshots), the value _fetch_snapshots stores
CachedTuple(snapshots, start_step) == snapshots

\* _fetch_snapshots caching an empty tuple for a simulation that raised
CacheEmptyOnError(cache, key, result, start_step) ==
    IF result.error # ""
    THEN Store(cache, key, << >>)
    ELSE Store(cache, key, CachedTuple(result.snapshots, start_step))

\* _fetch_snapshots without line 279, its write of the cache
CacheNeverWritten(cache, key, result, start_step) == cache

\* the cache after the engine has returned or raised in _fetch_snapshots
CacheAfterSimulate(cache, key, result, start_step) ==
    IF result.error # ""
    THEN cache
    ELSE Store(cache, key, CachedTuple(result.snapshots, start_step))

\* SnapshotService._fetch_snapshots up to its await of the engine
fetch_snapshots(t, tk) ==
    LET key == cache_key(tk.circuit, tk.noise, tk.focus_qubit)
    IN  /\ fetches' = fetches + 1
        /\ IF InCache(snapshot_cache, key)
           THEN /\ cache_hits' = cache_hits + 1
                /\ tasks' = [tasks EXCEPT ![t] =
                                after_fetch([tk EXCEPT !.hit = "hit"], snapshot_cache[key])]
                /\ fetched' = fetched (+) SetToBag({key})
                /\ UNCHANGED <<cache_misses, sim_calls>>
           ELSE /\ cache_misses' = cache_misses + 1
                /\ sim_calls' = sim_calls (+) SetToBag({key})
                /\ tasks' = [tasks EXCEPT ![t] =
                                [tk EXCEPT !.hit = "miss", !.pc = "simulate",
                                           !.trace = Append(@, "simulate")]]
                /\ UNCHANGED <<cache_hits, fetched>>
        /\ UNCHANGED <<snapshot_cache, exporter, repository, sim_done, repo_calls, stored>>

\* SnapshotService._fetch_snapshots from the return of the engine
simulate_return(t) ==
    LET tk == tasks[t]
        key == cache_key(tk.circuit, tk.noise, tk.focus_qubit)
        result == simulate(tk.circuit, tk.noise, tk.focus_qubit)
    IN  /\ tk.pc = "simulate"
        /\ snapshot_cache' = CacheAfterSimulate(snapshot_cache, key, result, tk.start_step)
        /\ IF result.error # ""
           THEN /\ tasks' = [tasks EXCEPT ![t] = Raise(tk, result.error)]
                /\ UNCHANGED <<sim_done, fetched, stored>>
           ELSE /\ tasks' = [tasks EXCEPT ![t] =
                                after_fetch(tk, CachedTuple(result.snapshots, tk.start_step))]
                /\ sim_done' = sim_done (+) SetToBag({key})
                /\ fetched' = fetched (+) SetToBag({key})
                /\ stored' = stored \cup {Request(tk.circuit, tk.noise, tk.focus_qubit)}
        /\ UNCHANGED <<cache_hits, cache_misses, exporter, repository, sim_calls,
                       repo_calls, fetches, called, calls>>

\* a task that is not in a call starts the call op with the key
Call(t, op, key) ==
    /\ tasks[t].pc = "idle"
    /\ calls < call_limit
    /\ calls' = calls + 1
    /\ called' = called (+) SetToBag({<<op, key>>})

\* SnapshotService.generate
generate(t, circuit, noise, focus_qubit) ==
    /\ Call(t, "generate", cache_key(circuit, noise, focus_qubit))
    /\ fetch_snapshots(t, NewTask("generate", circuit, noise, focus_qubit, None, FALSE, << >>))

\* SnapshotService.regenerate_from
regenerate_from(t, circuit, start_step, noise, focus_qubit) ==
    /\ Call(t, "regenerate_from", cache_key(circuit, noise, focus_qubit))
    /\ fetch_snapshots(t, NewTask("regenerate_from", circuit, noise, focus_qubit,
                                  Some(start_step), FALSE, << >>))

\* the seeds numpy's default_rng takes from the operating system when seed is None
Entropy == {2, 3}

\* SnapshotService.measure
measure(t, circuit, basis, shots, noise, focus_qubit, seed) ==
    /\ Call(t, "measure", cache_key(circuit, noise, focus_qubit))
    /\ \E rng \in (IF IsNone(seed) THEN Entropy ELSE {Get(seed)}) :
          fetch_snapshots(t, [NewTask("measure", circuit, noise, focus_qubit, None, FALSE,
                                      << >>)
                                 EXCEPT !.basis = basis, !.shots = shots, !.seed = seed,
                                        !.rng = rng])

\* SnapshotService.save up to its await of the repository
save_begin(tk) ==
    LET key == cache_key(tk.circuit, None, tk.focus_qubit)
    IN  /\ snapshot_cache' = Store(snapshot_cache, key, tk.snapshots)
        /\ repo_calls' = repo_calls + 1
        /\ stored' = stored \cup {Request(tk.circuit, None, tk.focus_qubit)}
        /\ UNCHANGED <<cache_hits, cache_misses, exporter, repository, sim_calls, sim_done,
                       fetches, fetched>>

\* the task at the await of repository.save
AwaitingSave(tk) ==
    [tk EXCEPT !.pc = "repository_save",
               !.trace = Append(@, "repository_save"),
               !.saved = Some(tk.snapshots)]

\* SnapshotService.save
save(t, circuit, snapshots, focus_qubit) ==
    /\ Call(t, "save", cache_key(circuit, None, focus_qubit))
    /\ save_begin(NewTask("save", circuit, None, focus_qubit, None, FALSE, snapshots))
    /\ tasks' = [tasks EXCEPT ![t] =
                    AwaitingSave(NewTask("save", circuit, None, focus_qubit, None, FALSE,
                                         snapshots))]

\* export looking for its exporter only once the snapshots are at hand
export_checks_exporter_late(t, circuit, noise, focus_qubit, share) ==
    /\ Call(t, "export", cache_key(circuit, noise, focus_qubit))
    /\ fetch_snapshots(t, NewTask("export", circuit, noise, focus_qubit, None, share, << >>))

\* SnapshotService.export
export(t, circuit, noise, focus_qubit, share) ==
    /\ Call(t, "export", cache_key(circuit, noise, focus_qubit))
    /\ IF ~exporter
       THEN /\ tasks' = [tasks EXCEPT ![t] =
                            Raise(NewTask("export", circuit, noise, focus_qubit, None, share,
                                          << >>), "RuntimeError")]
            /\ UNCHANGED <<service, repository, sim_calls, sim_done, repo_calls, fetches,
                           fetched, stored>>
       ELSE fetch_snapshots(t, NewTask("export", circuit, noise, focus_qubit, None, share,
                                       << >>))

\* SnapshotService.export from the return of exporter.export_qasm
export_qasm_return(t) ==
    LET tk == tasks[t]
        result == export_qasm(tk.circuit)
    IN  /\ tk.pc = "export_qasm"
        /\ tasks' = [tasks EXCEPT ![t] =
                        IF result.error # ""
                        THEN Raise(tk, result.error)
                        ELSE [tk EXCEPT !.qasm = result.qasm,
                                        !.pc = "export_json",
                                        !.trace = Append(@, "export_json")]]
        /\ UNCHANGED <<service, repository, observed, calls>>

\* the tuple export returns
ExportResult(tk, share_id) ==
    [qasm |-> tk.qasm, snapshot_json |-> tk.snapshot_json, share_id |-> share_id,
     snapshots |-> tk.snapshots]

\* export saving whether or not share was asked for
ShareAlways(tk) == TRUE

\* if share:
ShareRequested(tk) == tk.share

\* SnapshotService.export from the return of exporter.export_json
export_json_return(t) ==
    LET tk == [tasks[t] EXCEPT !.snapshot_json = Some(export_json(tasks[t].snapshots))]
    IN  /\ tasks[t].pc = "export_json"
        /\ IF ShareRequested(tk)
           THEN /\ save_begin(tk)
                /\ tasks' = [tasks EXCEPT ![t] = AwaitingSave(tk)]
           ELSE /\ tasks' = [tasks EXCEPT ![t] = Return(tk, ExportResult(tk, None))]
                /\ UNCHANGED <<service, repository, sim_calls, sim_done, repo_calls, fetches,
                               fetched, stored>>
        /\ UNCHANGED <<called, calls>>

\* repository.save returns the id of the new row
repository_save_return(t) ==
    LET tk == tasks[t]
        circuit_id == Len(repository) + 1
    IN  /\ tk.pc = "repository_save"
        /\ repository' = Append(repository,
                                Row(tk.circuit, Get(tk.saved), None, tk.focus_qubit))
        /\ tasks' = [tasks EXCEPT ![t] =
                        IF tk.op = "save"
                        THEN Return(tk, circuit_id)
                        ELSE Return(tk, ExportResult(tk, Some(circuit_id)))]
        /\ UNCHANGED <<service, observed, calls>>

\* repository.save raises
repository_save_raise(t) ==
    LET tk == tasks[t]
    IN  /\ tk.pc = "repository_save"
        /\ tasks' = [tasks EXCEPT ![t] = Raise(tk, "RepositoryError")]
        /\ UNCHANGED <<service, repository, observed, calls>>

----------------------------------------------------------------------------
(* Specifications *)

ServiceInit ==
    /\ snapshot_cache = << >>
    /\ cache_hits = 0
    /\ cache_misses = 0
    /\ exporter \in BOOLEAN
    /\ repository = << >>
    /\ tasks = [t \in Task |-> IdleTask]
    /\ sim_calls = EmptyBag
    /\ sim_done = EmptyBag
    /\ repo_calls = 0
    /\ fetches = 0
    /\ fetched = EmptyBag
    /\ called = EmptyBag
    /\ stored = {}
    /\ calls = 0

\* a Circuit nobody has edited, the engine not run, no BlochVector constructed
BenchInit ==
    /\ mutable_circuit = Circuit(1, << >>, None)
    /\ engine_out = None
    /\ bloch_vector = None
    /\ bloch_payload = None

\* no list analysed
AnalysisInit ==
    /\ sample_sequence = << >>
    /\ run_analysis = None

\* the callers start at most MaxCalls calls; no measure has returned
CallersInit ==
    /\ call_limit = MaxCalls
    /\ measurement = None

\* empty repositories, no call made
AdaptersInit ==
    /\ sqlite_table = << >>
    /\ memory_store = << >>
    /\ saved_args = << >>
    /\ repository_call = None

\* a handler that is not in a call
IdleHandler == [pc |-> "idle", op |-> "none", status |-> "pending", ret |-> None]

\* the module dependencies as imported: the repository not connected, no service
DepsInit ==
    /\ service_global = None
    /\ connected = FALSE
    /\ constructed = 0
    /\ db_connects = 0
    /\ handlers = [t \in Task |-> IdleHandler]
    /\ requests_made = 0

\* the Circuit not edited yet
ExtrasInit ==
    /\ edited_at = -1
    /\ AdaptersInit
    /\ DepsInit

OthersInit == AnalysisInit /\ CallersInit /\ ExtrasInit

Init == ServiceInit /\ BenchInit /\ OthersInit

Step(t, in) ==
    \/ \E r \in in.gen_requests :
          generate(t, r.circuit, r.noise, r.focus_qubit)
    \/ \E r \in in.requests, start_step \in in.start_steps :
          regenerate_from(t, r.circuit, start_step, r.noise, r.focus_qubit)
    \/ \E r \in in.requests, m \in in.measures :
          measure(t, r.circuit, m.basis, m.shots, r.noise, r.focus_qubit, m.seed)
    \/ \E r \in in.requests :
          \E snapshots \in SaveInputs(r.circuit, r.focus_qubit) :
              in.saves /\ save(t, r.circuit, snapshots, r.focus_qubit)
    \/ \E r \in in.requests, share \in in.shares :
          export(t, r.circuit, r.noise, r.focus_qubit, share)
    \/ simulate_return(t)
    \/ export_qasm_return(t)
    \/ export_json_return(t)
    \/ repository_save_return(t)
    \/ repository_save_raise(t)

\* calls of the service overlap at the awaits
Next ==
    /\ \E t \in Task : Step(t, Inputs(FocusedRequests, FocusedRequests, {1}))
    /\ UNCHANGED <<bench, others>>

Spec == Init /\ [][Next]_vars

\* one call at a time
NextSeq ==
    /\ Step(1, Inputs(KeyRequests, FocusedRequests, StartSteps))
    /\ UNCHANGED <<bench, others>>

SpecSeq == Init /\ [][NextSeq]_vars

----------------------------------------------------------------------------
(* One caller of measure *)

CircuitZero == Circuit(1, << >>, None)
CircuitH == Circuit(1, <<GateH>>, None)

MeasureRequests ==
    {Request(CircuitZero, None, Some(0)),
     Request(CircuitH, None, Some(0)),
     Request(CircuitH, Some(NoiseDepolarizing), Some(0))}

Measures ==
    {[basis |-> basis, shots |-> shots, seed |-> seed] :
        basis \in {"Z", "x"}, shots \in 0..MaxShots, seed \in {None, Some(7)}}

\* the call of task t returns in this step
ReturnsIn(t) ==
    /\ tasks'[t].pc = "idle"
    /\ tasks'[t].status = "returned"
    /\ tasks[t].pc # "idle" \/ calls' # calls

\* the caller keeps the call of measure that returned last
KeepMeasurement ==
    measurement' = IF ReturnsIn(1) /\ tasks'[1].op = "measure"
                   THEN Some(tasks'[1])
                   ELSE measurement

NextMeasure ==
    /\ \/ \E r \in MeasureRequests, m \in Measures :
             measure(1, r.circuit, m.basis, m.shots, r.noise, r.focus_qubit, m.seed)
       \/ simulate_return(1)
    /\ KeepMeasurement
    /\ UNCHANGED <<bench, analysis, call_limit, extras>>

SpecMeasure == Init /\ [][NextMeasure]_vars

\* a caller who may start one call more
RemeasureInit ==
    /\ ServiceInit
    /\ BenchInit
    /\ AnalysisInit
    /\ call_limit = MaxCalls + 1
    /\ measurement = None
    /\ ExtrasInit

RemeasureRequests ==
    {Request(CircuitH, None, Some(0)), Request(CircuitH, Some(NoiseDepolarizing), Some(0))}

RemeasureInputs ==
    [gen_requests |-> RemeasureRequests, requests |-> RemeasureRequests,
     start_steps |-> {1},
     measures |-> {[basis |-> "x", shots |-> MaxShots, seed |-> seed] :
                      seed \in {None, Some(7)}},
     shares |-> BOOLEAN, saves |-> TRUE]

\* one call at a time, of any operation, the caller keeping its last measurement
NextRemeasure ==
    /\ Step(1, RemeasureInputs)
    /\ KeepMeasurement
    /\ UNCHANGED <<bench, analysis, call_limit, extras>>

SpecRemeasure == RemeasureInit /\ [][NextRemeasure]_vars

----------------------------------------------------------------------------
(* The Circuit object and the engine on their own *)

QubitCounts == {1, 2}

GateMeasureZ == Gate("MEASURE_Z", <<0>>, << >>, << >>, {})
GateDepolarizing == Gate("DEPOLARIZING", <<0>>, << >>, << >>, {})
GateCX == Gate("CX", <<1>>, <<0>>, << >>, {})
GateCXTwoTargets == Gate("CX", <<0, 1>>, << >>, << >>, {})
GateCXOverlap == Gate("CX", <<0>>, <<0>>, << >>, {})
GateCZNoControl == Gate("CZ", <<0>>, << >>, << >>, {})

\* the gates an owner of a Circuit hands to append and insert
EngineGates ==
    {GateH, GateX1, GateMeasureZ, GateDepolarizing, GateCX, GateCXTwoTargets,
     GateCXOverlap, GateCZNoControl, GateFoo}

NoiseAll == NoiseConfig(Some(10), Some(5), Some(20))
NoisePhaseOnly == NoiseConfig(None, Some(5), Some(0))
NoiseDisabled == NoiseConfig(Some(0), None, None)

EngineNoises == {None, Some(NoiseAll), Some(NoisePhaseOnly), Some(NoiseDisabled)}

EngineFocusQubits == {None, Some(-1), Some(0), Some(1), Some(2)}

Indexes == {-1, 0, 1}

\* list.insert(index, item)
ListInsert(list, index, item) ==
    LET n == Len(list)
        shifted == IF index < 0 THEN index + n ELSE index
        at == IF shifted < 0 THEN 0 ELSE IF shifted > n THEN n ELSE shifted
    IN  SubSeq(list, 1, at) \o <<item>> \o SubSeq(list, at + 1, n)

\* list.pop(index) raises IndexError
PopRaises(list, index) == index >= Len(list) \/ index < -Len(list)

\* the list after list.pop(index)
ListPop(list, index) ==
    LET n == Len(list)
        at == IF index < 0 THEN index + n ELSE index
    IN  SubSeq(list, 1, at) \o SubSeq(list, at + 2, n)

\* Circuit.append
append(gate) ==
    /\ Len(mutable_circuit.gates) < MaxGates
    /\ mutable_circuit' = [mutable_circuit EXCEPT !.gates = Append(@, gate)]
    /\ engine_out' = None
    /\ UNCHANGED <<service, repository, tasks, observed, calls, bloch_vector, bloch_payload>>

\* Circuit.insert
insert(index, gate) ==
    /\ Len(mutable_circuit.gates) < MaxGates
    /\ mutable_circuit' = [mutable_circuit EXCEPT !.gates = ListInsert(@, index, gate)]
    /\ engine_out' = None
    /\ UNCHANGED <<service, repository, tasks, observed, calls, bloch_vector, bloch_payload>>

\* Circuit.remove; an index out of range raises and leaves the list as it is
remove(index) ==
    /\ ~PopRaises(mutable_circuit.gates, index)
    /\ mutable_circuit' = [mutable_circuit EXCEPT !.gates = ListPop(@, index)]
    /\ engine_out' = None
    /\ UNCHANGED <<service, repository, tasks, observed, calls, bloch_vector, bloch_payload>>

\* the owner of the Circuit runs QiskitSimulationAdapter.simulate on it
run_engine(noise, focus_qubit) ==
    /\ engine_out' = Some([noise |-> noise, focus_qubit |-> focus_qubit,
                           result |-> simulate(mutable_circuit, noise, focus_qubit)])
    /\ UNCHANGED <<service, repository, tasks, observed, calls, mutable_circuit,
                   bloch_vector, bloch_payload>>

EngineInit ==
    /\ ServiceInit
    /\ exporter
    /\ mutable_circuit \in {Circuit(qubit_count, << >>, None) : qubit_count \in QubitCounts}
    /\ engine_out = None
    /\ bloch_vector = None
    /\ bloch_payload = None
    /\ OthersInit

NextEngine ==
    /\ \/ \E gate \in EngineGates : append(gate)
       \/ \E index \in Indexes, gate \in EngineGates : insert(index, gate)
       \/ \E index \in Indexes : remove(index)
       \/ \E noise \in EngineNoises, focus_qubit \in EngineFocusQubits :
             run_engine(noise, focus_qubit)
    /\ UNCHANGED others

SpecEngine == EngineInit /\ [][NextEngine]_vars

----------------------------------------------------------------------------
(* The owner of a Circuit edits it between its requests to the service *)

EditGates == {GateH, GateX}

\* the owner edits the Circuit while no call of theirs is in progress
edit ==
    /\ tasks[1].pc = "idle"
    /\ \/ \E gate \in EditGates : append(gate)
       \/ \E index \in Indexes, gate \in EditGates : insert(index, gate)
       \/ \E index \in Indexes : remove(index)
    /\ edited_at' = calls
    /\ UNCHANGED <<adapters, deps>>

\* the owner hands the Circuit object to generate
generate_edited ==
    /\ \/ \E noise \in Noises : generate(1, mutable_circuit, noise, Some(0))
       \/ simulate_return(1)
    /\ UNCHANGED <<bench, extras>>

NextEdit ==
    /\ edit \/ generate_edited
    /\ UNCHANGED <<analysis, callers>>

SpecEdit == Init /\ [][NextEdit]_vars

----------------------------------------------------------------------------
(* The repository adapters: adapters/repository_sqlite.py, adapters/repository_memory.py *)

MaxRows == 2

\* the keyword arguments of a call of save: `given` holds the names the caller passes
Keywords(given, name, focus_qubit) ==
    [given |-> given,
     name |-> IF "name" \in given THEN name ELSE None,
     focus_qubit |-> IF "focus_qubit" \in given THEN focus_qubit ELSE None]

\* CircuitRepositoryPort.save(circuit, snapshots, *, name=None, focus_qubit=None): the
\* keyword arguments the port lets a caller pass
PortKeywords ==
    {Keywords(given, name, focus_qubit) :
        given \in SUBSET {"name", "focus_qubit"},
        name \in {Some("bell")},
        focus_qubit \in {Some(0), Some(1)}}

SavedCircuits ==
    {CircuitH, Circuit(1, <<GateHLabelled>>, None), Circuit(2, <<GateH, GateCX>>, Some(1))}

\* a returned call of an adapter
Returns(adapter, op, circuit_id, value) ==
    [adapter |-> adapter, op |-> op, id |-> circuit_id, error |-> "", ret |-> Some(value)]

\* a call of an adapter that raised
Raises(adapter, op, circuit_id, error) ==
    [adapter |-> adapter, op |-> op, id |-> circuit_id, error |-> error, ret |-> None]

\* the arguments of a returned save
SavedArgs(adapter, circuit_id, circuit, snapshots, keywords) ==
    [adapter |-> adapter, id |-> circuit_id, circuit |-> circuit, snapshots |-> snapshots,
     name |-> keywords.name, focus_qubit |-> keywords.focus_qubit]

\* gates_payload of SQLiteCircuitRepository.save
GatesPayload(gates) ==
    [i \in 1..Len(gates) |->
        [name |-> gates[i].name, targets |-> gates[i].targets, controls |-> gates[i].controls,
         parameters |-> gates[i].parameters, metadata |-> gates[i].metadata]]

\* snapshot_payload of SQLiteCircuitRepository.save
SnapshotPayload(snapshots) ==
    [i \in 1..Len(snapshots) |->
        [step |-> snapshots[i].step,
         statevector |-> snapshots[i].statevector,
         density_matrix |-> snapshots[i].density_matrix,
         focus_qubit |-> snapshots[i].focus_qubit,
         metadata |-> snapshots[i].metadata]]

\* the row SQLiteCircuitRepository.save inserts, column by column
SqliteRow(circuit, snapshots, keywords) ==
    [name |-> keywords.name,
     qubit_count |-> circuit.qubit_count,
     global_phase |-> circuit.global_phase,
     gates |-> GatesPayload(circuit.gates),
     snapshots |-> SnapshotPayload(snapshots),
     focus_qubit |-> keywords.focus_qubit]

\* the Circuit SQLiteCircuitRepository.load rebuilds, gate by gate
LoadedCircuit(row) ==
    Circuit(row.qubit_count,
            [i \in 1..Len(row.gates) |->
                Gate(row.gates[i].name, row.gates[i].targets, row.gates[i].controls,
                     row.gates[i].parameters, row.gates[i].metadata)],
            row.global_phase)

\* `tuple(...) if payload else None`: a payload that is None or empty loads as None
IfTruthy(payload) == IF IsNone(payload) THEN None ELSE payload

\* the snapshots SQLiteCircuitRepository.load rebuilds
LoadedSnapshots(row) ==
    [i \in 1..Len(row.snapshots) |->
        Snapshot(row.snapshots[i].step,
                 IfTruthy(row.snapshots[i].statevector),
                 IfTruthy(row.snapshots[i].density_matrix),
                 row.snapshots[i].focus_qubit,
                 row.snapshots[i].metadata)]

\* SQLiteCircuitRepository.save: name and focus_qubit are keyword-only parameters
sqlite_save(circuit, snapshots, keywords) ==
    LET circuit_id == Len(sqlite_table) + 1
    IN  /\ Len(saved_args) < MaxRows
        /\ sqlite_table' = Append(sqlite_table, SqliteRow(circuit, snapshots, keywords))
        /\ saved_args' = Append(saved_args,
                                SavedArgs("sqlite", circuit_id, circuit, snapshots, keywords))
        /\ repository_call' = Some(Returns("sqlite", "save", circuit_id, circuit_id))
        /\ UNCHANGED memory_store

\* SQLiteCircuitRepository.load
sqlite_load(circuit_id) ==
    /\ repository_call' =
           IF circuit_id \notin DOMAIN sqlite_table
           THEN Some(Raises("sqlite", "load", circuit_id, "KeyError"))
           ELSE Some(Returns("sqlite", "load", circuit_id,
                             <<LoadedCircuit(sqlite_table[circuit_id]),
                               LoadedSnapshots(sqlite_table[circuit_id]),
                               sqlite_table[circuit_id].name,
                               sqlite_table[circuit_id].focus_qubit>>))
    /\ UNCHANGED <<sqlite_table, memory_store, saved_args>>

\* InMemoryCircuitRepository.save(self, circuit, snapshots, name=None): a keyword the
\* function does not have raises TypeError at the call
memory_save(circuit, snapshots, keywords) ==
    LET circuit_id == Len(memory_store) + 1
    IN  /\ Len(saved_args) < MaxRows
        /\ IF keywords.given \subseteq {"name"}
           THEN /\ memory_store' = Append(memory_store,
                                          <<keywords.name, circuit, snapshots, "in-memory">>)
                /\ saved_args' = Append(saved_args,
                                        SavedArgs("memory", circuit_id, circuit, snapshots,
                                                  keywords))
                /\ repository_call' = Some(Returns("memory", "save", circuit_id, circuit_id))
           ELSE /\ repository_call' = Some(Raises("memory", "save", 0, "TypeError"))
                /\ UNCHANGED <<memory_store, saved_args>>
        /\ UNCHANGED sqlite_table

\* InMemoryCircuitRepository.load
memory_load(circuit_id) ==
    /\ repository_call' =
           IF circuit_id \notin DOMAIN memory_store
           THEN Some(Raises("memory", "load", circuit_id, "KeyError"))
           ELSE Some(Returns("memory", "load", circuit_id,
                             <<memory_store[circuit_id][2], memory_store[circuit_id][3],
                               memory_store[circuit_id][1]>>))
    /\ UNCHANGED <<sqlite_table, memory_store, saved_args>>

\* a caller saves the snapshots of a circuit, with the keywords the port allows, and loads
NextRepository ==
    /\ \/ \E circuit \in SavedCircuits, focus_qubit \in {Some(0), Some(1)},
             keywords \in PortKeywords :
             sqlite_save(circuit, simulate(circuit, None, focus_qubit).snapshots, keywords)
       \/ \E circuit_id \in 1..(MaxRows + 1) : sqlite_load(circuit_id)
       \/ \E circuit \in SavedCircuits, focus_qubit \in {Some(0), Some(1)},
             keywords \in PortKeywords :
             memory_save(circuit, simulate(circuit, None, focus_qubit).snapshots, keywords)
       \/ \E circuit_id \in 1..(MaxRows + 1) : memory_load(circuit_id)
    /\ UNCHANGED <<service, repository, tasks, observed, calls, bench, analysis, callers,
                   edited_at, deps>>

SpecRepository == Init /\ [][NextRepository]_vars

----------------------------------------------------------------------------
(* The wiring of the API: adapters/api/dependencies.py, and the repository's connect *)

MaxRequests == 3

\* a handler starts a call
StartCall(t, op) ==
    /\ handlers[t].pc = "idle"
    /\ requests_made < MaxRequests
    /\ requests_made' = requests_made + 1

\* the handler's call returns value
Done(op, value) == [pc |-> "idle", op |-> op, status |-> "returned", ret |-> value]

\* the handler's call raises
Failed(op) == [pc |-> "idle", op |-> op, status |-> "raised", ret |-> None]

\* the handler's call waits at the await `pc`
Awaiting(op, pc) == [pc |-> pc, op |-> op, status |-> "pending", ret |-> None]

\* _service = SnapshotService(...); return _service
construct_service(t) ==
    /\ constructed' = constructed + 1
    /\ service_global' = Some(constructed + 1)
    /\ handlers' = [handlers EXCEPT ![t] = Done("get_snapshot_service", Some(constructed + 1))]

\* SQLiteCircuitRepository.connect up to its first await, for the call op of handler t
connect_begin(t, op) ==
    /\ db_connects' = db_connects + 1
    /\ handlers' = [handlers EXCEPT ![t] = Awaiting(op, "database_connect")]
    /\ UNCHANGED <<service_global, connected, constructed>>

\* get_snapshot_service up to its first await, or to its return
get_snapshot_service(t) ==
    /\ StartCall(t, "get_snapshot_service")
    /\ IF ~IsNone(service_global)
       THEN /\ handlers' = [handlers EXCEPT ![t] = Done("get_snapshot_service", service_global)]
            /\ UNCHANGED <<service_global, connected, constructed, db_connects>>
       ELSE IF connected
            THEN /\ construct_service(t)
                 /\ UNCHANGED <<connected, db_connects>>
            ELSE connect_begin(t, "get_snapshot_service")

\* connect_repository, awaited by the lifespan at startup
connect_repository(t) ==
    /\ StartCall(t, "connect_repository")
    /\ IF connected
       THEN /\ handlers' = [handlers EXCEPT ![t] = Done("connect_repository", None)]
            /\ UNCHANGED <<service_global, connected, constructed, db_connects>>
       ELSE connect_begin(t, "connect_repository")

\* await self._database.connect() returns
database_connect_return(t) ==
    /\ handlers[t].pc = "database_connect"
    /\ handlers' = [handlers EXCEPT ![t].pc = "create_table"]
    /\ UNCHANGED <<service_global, connected, constructed, db_connects, requests_made>>

\* await self._database.connect() raises: the library may refuse a connect that follows
\* another one
database_connect_raise(t) ==
    /\ handlers[t].pc = "database_connect"
    /\ db_connects > 1
    /\ handlers' = [handlers EXCEPT ![t] = Failed(handlers[t].op)]
    /\ UNCHANGED <<service_global, connected, constructed, db_connects, requests_made>>

\* await self._database.execute(self._init_query) returns
create_table_return(t) ==
    /\ handlers[t].pc = "create_table"
    /\ handlers' = [handlers EXCEPT ![t].pc = "ensure_focus_column"]
    /\ UNCHANGED <<service_global, connected, constructed, db_connects, requests_made>>

\* await self._ensure_focus_column() returns: connect sets _connected and returns to
\* its caller, which runs to its own return
ensure_focus_column_return(t) ==
    /\ handlers[t].pc = "ensure_focus_column"
    /\ connected' = TRUE
    /\ IF handlers[t].op = "get_snapshot_service"
       THEN construct_service(t)
       ELSE /\ handlers' = [handlers EXCEPT ![t] = Done("connect_repository", None)]
            /\ UNCHANGED <<service_global, constructed>>
    /\ UNCHANGED <<db_connects, requests_made>>

\* disconnect_repository, awaited by the lifespan at shutdown
disconnect_repository(t) ==
    /\ StartCall(t, "disconnect_repository")
    /\ handlers' = [handlers EXCEPT ![t] =
                       IF connected
                       THEN Awaiting("disconnect_repository", "database_disconnect")
                       ELSE Done("disconnect_repository", None)]
    /\ UNCHANGED <<service_global, connected, constructed, db_connects>>

\* await self._database.disconnect() returns
database_disconnect_return(t) ==
    /\ handlers[t].pc = "database_disconnect"
    /\ connected' = FALSE
    /\ db_connects' = 0
    /\ handlers' = [handlers EXCEPT ![t] = Done("disconnect_repository", None)]
    /\ UNCHANGED <<service_global, constructed, requests_made>>

DepsStep(t) ==
    \/ get_snapshot_service(t)
    \/ connect_repository(t)
    \/ database_connect_return(t)
    \/ database_connect_raise(t)
    \/ create_table_return(t)
    \/ ensure_focus_column_return(t)
    \/ disconnect_repository(t)
    \/ database_disconnect_return(t)

\* the handlers' calls overlap at the awaits
NextDeps ==
    /\ \E t \in Task : DepsStep(t)
    /\ UNCHANGED <<service, repository, tasks, observed, calls, bench, analysis, callers,
                   edited_at, adapters>>

SpecDeps == Init /\ [][NextDeps]_vars

----------------------------------------------------------------------------
(* BlochVector: built by a caller, by the engine, and by the repository's load *)

\* components in hundredths
Components == {-150, -100, 0, 100, 150}

\* reduced one-qubit density matrices, entries in hundredths: |0>, |1>, |+>, |+i> and the
\* maximally mixed state
ReducedMatrices ==
    {[re01 |-> 0, im10 |-> 0, r00 |-> 100, r11 |-> 0],
     [re01 |-> 0, im10 |-> 0, r00 |-> 0, r11 |-> 100],
     [re01 |-> 50, im10 |-> 0, r00 |-> 50, r11 |-> 50],
     [re01 |-> 0, im10 |-> 50, r00 |-> 50, r11 |-> 50],
     [re01 |-> 0, im10 |-> 0, r00 |-> 50, r11 |-> 50]}

\* the BlochVector _build_snapshot makes of the reduced density matrix
BlochOf(rho) == BlochVector(2 * rho.re01, 2 * rho.im10, rho.r00 - rho.r11)

\* dict.get(key, default)
DictGet(dict, key, default) == IF key \in DOMAIN dict THEN dict[key] ELSE default

\* the "bloch" entry SQLiteCircuitRepository.save writes for a snapshot
BlochPayload(bloch) ==
    IF IsNone(bloch)
    THEN None
    ELSE Some([key \in {"x", "y", "z"} |->
                  CASE key = "x" -> Get(bloch).x
                    [] key = "y" -> Get(bloch).y
                    [] key = "z" -> Get(bloch).z])

\* the bloch SQLiteCircuitRepository.load rebuilds from the entry
BlochLoaded(payload) ==
    IF IsNone(payload)
    THEN None
    ELSE Some(BlochVector(DictGet(Get(payload), "x", 0),
                          DictGet(Get(payload), "y", 0),
                          DictGet(Get(payload), "z", 0)))

\* a caller constructs BlochVector(x, y, z)
construct_bloch(x, y, z) ==
    /\ bloch_vector' = Some(BlochVector(x, y, z))
    /\ UNCHANGED <<service, repository, tasks, observed, calls, mutable_circuit,
                   engine_out, bloch_payload>>

\* _build_snapshot constructs the vector of a snapshot
build_snapshot_bloch(rho) ==
    /\ bloch_vector' = Some(BlochOf(rho))
    /\ UNCHANGED <<service, repository, tasks, observed, calls, mutable_circuit,
                   engine_out, bloch_payload>>

\* SQLiteCircuitRepository.save of a snapshot that carries bloch_vector
save_bloch ==
    /\ bloch_payload' = BlochPayload(bloch_vector)
    /\ UNCHANGED <<service, repository, tasks, observed, calls, mutable_circuit,
                   engine_out, bloch_vector>>

\* SQLiteCircuitRepository.load of the snapshot saved last
load_bloch ==
    /\ bloch_vector' = BlochLoaded(bloch_payload)
    /\ UNCHANGED <<service, repository, tasks, observed, calls, mutable_circuit,
                   engine_out, bloch_payload>>

NextBloch ==
    /\ \/ \E x, y, z \in Components : construct_bloch(x, y, z)
       \/ \E rho \in ReducedMatrices : build_snapshot_bloch(rho)
       \/ save_bloch
       \/ load_bloch
    /\ UNCHANGED others

SpecBloch == Init /\ [][NextBloch]_vars

----------------------------------------------------------------------------
(* _analyze_runs driven on its own *)

\* the lists of at most MaxSamples outcomes
SampleSequences == UNION {[1..n -> Outcomes] : n \in 0..MaxSamples}

\* a caller runs _analyze_runs on its list
analyze ==
    /\ run_analysis' = Some(analyze_runs(sample_sequence))
    /\ UNCHANGED sample_sequence

\* a caller takes another list
take_samples(sequence) ==
    /\ sample_sequence' = sequence
    /\ run_analysis' = None

RunsInit ==
    /\ ServiceInit
    /\ BenchInit
    /\ sample_sequence \in SampleSequences
    /\ run_analysis = None
    /\ CallersInit
    /\ ExtrasInit

NextRuns ==
    /\ \/ analyze
       \/ \E sequence \in SampleSequences : take_samples(sequence)
    /\ UNCHANGED <<service, repository, tasks, observed, calls, bench, callers, extras>>

SpecRuns == RunsInit /\ [][NextRuns]_vars

----
\* Vocabulary of the properties

KeyOf(tk) == cache_key(tk.circuit, tk.noise, tk.focus_qubit)

RequestOf(tk) == Request(tk.circuit, tk.noise, tk.focus_qubit)

FetchOps == {"generate", "regenerate_from", "measure", "export"}

Returned(tk) == tk.op # "none" /\ tk.status = "returned"

\* the call raised out of the await of the engine
RaisedBySimulate(tk) ==
    /\ tk.status = "raised"
    /\ tk.hit = "miss"
    /\ tk.trace = <<"simulate">>

\* what a caller holds of the tuple `full` once its call has returned
ResultShows(tk, full) ==
    CASE tk.op \in {"generate", "regenerate_from"} -> tk.ret = FromStep(full, tk.start_step)
      [] tk.op = "measure" -> Len(full) > 0 /\ tk.ret.step = full[Len(full)].step
      [] tk.op = "export" -> tk.ret.snapshots = full
      [] OTHER -> FALSE

----
\* C1 as stated: the engine is invoked at most once per distinct cache key.
C1_EngineOncePerKey ==
    \A key \in BagToSet(sim_calls) : CopiesIn(key, sim_calls) <= 1

\* C1, amended: per distinct cache key at most one invocation of the engine returns
\* snapshots, and a key the engine was invoked for more than once is a key whose
\* simulation raises; a call whose key is cached is a hit that reaches no engine and
\* returns the cached tuple (its suffix from start_step for regenerate_from).
C1_EngineReturnsOncePerKey ==
    /\ \A key \in BagToSet(sim_done) : CopiesIn(key, sim_done) = 1
    /\ \A key \in BagToSet(sim_calls) :
          CopiesIn(key, sim_calls) > 1 => CopiesIn(key, sim_done) = 0
    /\ \A t \in Task :
          LET tk == tasks[t]
          IN  tk.hit = "hit" =>
                /\ "simulate" \notin Range(tk.trace)
                /\ InCache(snapshot_cache, KeyOf(tk))
                /\ tk.snapshots = snapshot_cache[KeyOf(tk)]
                /\ Returned(tk) => ResultShows(tk, snapshot_cache[KeyOf(tk)])

\* a regenerate_from answered from the entry an earlier call's simulation stored
C1_Witness ==
    \E t \in Task :
        LET tk == tasks[t]
        IN  /\ Returned(tk)
            /\ tk.op = "regenerate_from"
            /\ tk.hit = "hit"
            /\ CopiesIn(KeyOf(tk), sim_calls) = 1
            /\ CopiesIn(KeyOf(tk), sim_done) = 1
            /\ Len(tk.ret) > 0

----
\* the strength of a channel as the cache key sees it: an absent one counts as 0.0
Strength(value) == IF IsNone(value) THEN 0 ELSE Get(value)

\* the two requests agree on everything C2 lists
Agree(a, b) ==
    /\ a.circuit.qubit_count = b.circuit.qubit_count
    /\ a.circuit.global_phase = b.circuit.global_phase
    /\ Len(a.circuit.gates) = Len(b.circuit.gates)
    /\ \A i \in 1..Len(a.circuit.gates) :
          /\ i <= Len(b.circuit.gates)
          /\ a.circuit.gates[i].name = b.circuit.gates[i].name
          /\ a.circuit.gates[i].targets = b.circuit.gates[i].targets
          /\ a.circuit.gates[i].controls = b.circuit.gates[i].controls
          /\ a.circuit.gates[i].parameters = b.circuit.gates[i].parameters
    /\ IsNone(a.noise) <=> IsNone(b.noise)
    /\ ~IsNone(a.noise) /\ ~IsNone(b.noise) =>
          /\ Strength(Get(a.noise).amplitude_damping) = Strength(Get(b.noise).amplitude_damping)
          /\ Strength(Get(a.noise).phase_damping) = Strength(Get(b.noise).phase_damping)
          /\ Strength(Get(a.noise).depolarizing) = Strength(Get(b.noise).depolarizing)
    /\ a.focus_qubit = b.focus_qubit

\* C2: two requests map to the same cache entry exactly when they agree on qubit_count,
\* global_phase, the ordered (name, targets, controls, parameters) of the gates, the
\* noise fingerprint and focus_qubit: the key of the request being served equals the
\* key of another request exactly when the two agree, the request is a hit only when
\* an agreeing request was stored before, whatever the gates' metadata, and a miss
\* only when none was.
C2_SameEntryIffAgree ==
    \A t \in Task :
        LET tk == tasks[t]
        IN  tk.op \in FetchOps =>
              /\ \A b \in KeyRequests :
                    (KeyOf(tk) = cache_key(b.circuit, b.noise, b.focus_qubit))
                        <=> Agree(RequestOf(tk), b)
              /\ tk.hit = "hit" => \E s \in stored : Agree(RequestOf(tk), s)
              /\ tk.hit = "miss" /\ tk.pc = "simulate" =>
                    ~ \E s \in stored : Agree(RequestOf(tk), s)

\* a hit on the entry of a circuit whose gates differ only in metadata
C2_Witness ==
    \E t \in Task :
        LET tk == tasks[t]
        IN  /\ Returned(tk)
            /\ tk.hit = "hit"
            /\ sim_calls # EmptyBag
            /\ \E s \in stored :
                  /\ Agree(RequestOf(tk), s)
                  /\ s.circuit # tk.circuit

----
\* the step of task t is a call of `op` right after the return of t's call of `before`
Follows(t, before, op) ==
    /\ tasks[t].op = before
    /\ tasks[t].pc = "idle"
    /\ tasks[t].status = "returned"
    /\ calls' = calls + 1
    /\ tasks'[t].op = op

\* C3: generate(circuit, noise=None, focus_qubit=f) right after save(circuit, snapshots,
\* focus_qubit=f) is a hit: it returns the saved snapshots as a tuple, cache_hits grows
\* by one and the engine is not invoked.
C3_GenerateAfterSaveHits ==
    [][\A t \in Task :
          /\ Follows(t, "save", "generate")
          /\ tasks'[t].circuit = tasks[t].circuit
          /\ IsNone(tasks'[t].noise)
          /\ tasks'[t].focus_qubit = tasks[t].focus_qubit
          =>
              /\ tasks'[t].status = "returned"
              /\ tasks'[t].ret = tasks[t].snapshots
              /\ tasks'[t].hit = "hit"
              /\ cache_hits' = cache_hits + 1
              /\ cache_misses' = cache_misses
              /\ sim_calls' = sim_calls]_vars

\* generate has returned the snapshots of the row just saved, the engine never invoked
C3_Witness ==
    \E t \in Task :
        LET tk == tasks[t]
        IN  /\ Returned(tk)
            /\ tk.op = "generate"
            /\ tk.hit = "hit"
            /\ sim_calls = EmptyBag
            /\ cache_hits = 1
            /\ Len(repository) = 1
            /\ repository[1].circuit = tk.circuit
            /\ tk.ret = repository[1].snapshots
            /\ Len(tk.ret) > 0

----
\* the fraction `rate` is numerator / denominator
RateIs(rate, numerator, denominator) ==
    /\ rate[2] # 0
    /\ denominator # 0
    /\ rate[1] * denominator = numerator * rate[2]

\* hits + misses is the number of fetches, misses the number of engine invocations,
\* hit_rate is hits / (hits + misses), or 1.0 when no request has been made
Accounting ==
    /\ cache_stats.hits = cache_hits
    /\ cache_stats.misses = cache_misses
    /\ cache_stats.hits + cache_stats.misses = fetches
    /\ cache_stats.misses = BagCardinality(sim_calls)
    /\ fetches = 0 => RateIs(cache_stats.hit_rate, 1, 1)
    /\ fetches > 0 => RateIs(cache_stats.hit_rate, cache_stats.hits,
                             cache_stats.hits + cache_stats.misses)

\* the service has served two generate calls, of one fingerprint, and nothing else
TwoGenerateCalls ==
    /\ calls = 2
    /\ \A t \in Task : tasks[t].pc = "idle"
    /\ \E key \in BagToSet(sim_calls) : CopiesIn(<<"generate", key>>, called) = 2

\* C4 as stated: the counters account for the fetches, and two generate calls with
\* identical fingerprints leave misses == 1 and hits >= 1.
C4_CountersAndTwoGenerates ==
    /\ Accounting
    /\ TwoGenerateCalls => cache_misses = 1 /\ cache_hits >= 1

\* C4, amended: the counters account for the fetches (hits + misses = fetches, misses =
\* engine invocations, hit_rate = hits / (hits + misses) or 1.0 before any request), and
\* two generate calls with identical fingerprints, the second made after the first has
\* returned its snapshots, leave misses == 1 and hits >= 1.
C4_CountersAndSuccessiveGenerates ==
    /\ []Accounting
    /\ [][\A t \in Task :
             /\ Follows(t, "generate", "generate")
             /\ KeyOf(tasks'[t]) = KeyOf(tasks[t])
             /\ calls' = 2
             =>
             /\ tasks'[t].status = "returned"
             /\ cache_misses' = 1
             /\ cache_hits' >= 1
             /\ sim_calls' = sim_calls]_vars

\* the second of two generate calls of one fingerprint has returned: one miss, one hit
C4_Witness ==
    /\ TwoGenerateCalls
    /\ \A t \in Task : tasks[t].op # "none" => Returned(tasks[t]) /\ tasks[t].hit = "hit"
    /\ cache_misses = 1
    /\ cache_hits = 1
    /\ fetches = 2
    /\ RateIs(cache_stats.hit_rate, 1, 2)

----
\* `sequence` without its first k elements
DropFirst(sequence, k) == [i \in 1..(Len(sequence) - k) |-> sequence[i + k]]

\* the tuple holds one snapshot per step 0..n, in order
EveryStep(snapshots, n) ==
    /\ Len(snapshots) = n + 1
    /\ \A i \in 1..Len(snapshots) : snapshots[i].step = i - 1

\* a returned regenerate_from: its result is the suffix of the entry, which on a miss
\* is the engine's full tuple
RegenerateStoresFull ==
    \A t \in Task :
        LET tk == tasks[t]
            key == KeyOf(tk)
            n == Len(tk.circuit.gates)
            start == Get(tk.start_step)
        IN  tk.op = "regenerate_from" /\ Returned(tk) =>
              /\ InCache(snapshot_cache, key)
              /\ tk.hit = "miss" =>
                    /\ tk.trace = <<"simulate">>
                    /\ snapshot_cache[key] = simulate(tk.circuit, tk.noise, tk.focus_qubit).snapshots
                    /\ EveryStep(snapshot_cache[key], n)
              /\ 0 <= start /\ start <= n =>
                    tk.ret = DropFirst(snapshot_cache[key], start)

\* C5: regenerate_from(circuit, start_step) stores the full tuple on a miss and returns
\* only the suffix from start_step; a generate of the same fingerprint that follows
\* returns every step, and for 0 <= start_step <= len(gates) the result of
\* regenerate_from is the result of generate without its first start_step snapshots.
C5_RegenerateFromSuffix ==
    /\ []RegenerateStoresFull
    /\ [][\A t \in Task :
             /\ Follows(t, "regenerate_from", "generate")
             /\ KeyOf(tasks'[t]) = KeyOf(tasks[t])
             =>
             LET n == Len(tasks[t].circuit.gates)
                 start == Get(tasks[t].start_step)
             IN  /\ tasks'[t].status = "returned"
                 /\ tasks'[t].hit = "hit"
                 /\ tasks[t].hit = "miss" => EveryStep(tasks'[t].ret, n)
                 /\ 0 <= start /\ start <= n =>
                       tasks[t].ret = DropFirst(tasks'[t].ret, start)]_vars

\* generate returns every step out of the entry that a regenerate_from stored on
\* its miss
C5_Witness ==
    \E t \in Task :
        LET tk == tasks[t]
        IN  /\ Returned(tk)
            /\ tk.op = "generate"
            /\ tk.hit = "hit"
            /\ EveryStep(tk.ret, Len(tk.circuit.gates))
            /\ Len(tk.circuit.gates) = 2
            /\ calls = 2
            /\ CopiesIn(<<"regenerate_from", KeyOf(tk)>>, called) = 1
            /\ CopiesIn(KeyOf(tk), sim_done) = 1

----
\* no call is in progress
Quiescent == \A t \in Task : tasks[t].pc = "idle"

\* no caller has handed snapshots of its own to save
NoDirectSave == \A entry \in BagToSet(called) : entry[1] # "save"

\* the fetch of task t has returned a tuple
Fetched(tk) == tk.op \in FetchOps /\ tk.hit # "none" /\ ~RaisedBySimulate(tk) /\ tk.pc # "simulate"

\* C6: overlapping requests of one fingerprint are idempotent, leaving one entry for
\* the fingerprint and all of them returning equal tuples, and requests of different
\* fingerprints do not affect each other's entries or results: whatever else was
\* served, a request gets, and its entry holds, the snapshots of its own simulation.
C6_OverlappingRequestsIdempotent ==
    Quiescent /\ NoDirectSave =>
        \A t \in Task :
            LET tk == tasks[t]
                own == simulate(tk.circuit, tk.noise, tk.focus_qubit).snapshots
            IN  Fetched(tk) =>
                  /\ InCache(snapshot_cache, KeyOf(tk))
                  /\ \A u \in Task :
                        Fetched(tasks[u]) /\ KeyOf(tasks[u]) = KeyOf(tk) =>
                            tasks[u].snapshots = tk.snapshots
                  /\ tk.snapshots = own
                  /\ snapshot_cache[KeyOf(tk)] = own

\* C6 where no export shares: the requests are idempotent and independent
C6_IdempotentWithoutShare ==
    repo_calls = 0 => C6_OverlappingRequestsIdempotent

----
\* the number of calls made so far that fetch the entry of `key`; an export without
\* exporter raises before it fetches
FetchCalls(key) ==
    CopiesIn(<<"generate", key>>, called) + CopiesIn(<<"regenerate_from", key>>, called)
        + CopiesIn(<<"measure", key>>, called)
        + (IF exporter THEN CopiesIn(<<"export", key>>, called) ELSE 0)

\* the step of the final snapshot of a measure that returned
MeasureStep ==
    \A t \in Task :
        LET tk == tasks[t]
            key == KeyOf(tk)
        IN  tk.op = "measure" /\ Returned(tk) =>
              /\ InCache(snapshot_cache, key)
              /\ tk.snapshots = snapshot_cache[key]
              /\ Len(tk.snapshots) > 0
              /\ tk.ret.step = tk.snapshots[Len(tk.snapshots)].step
              /\ (tk.hit = "miss"
                    \/ tk.snapshots = simulate(tk.circuit, tk.noise, tk.focus_qubit).snapshots)
                    => tk.ret.step = Len(tk.circuit.gates)

\* C7 as stated: after a generate, or any earlier fetch, of the same circuit, noise and
\* focus_qubit, measure does not invoke the engine, and the step it returns is the
\* step of the last snapshot of the tuple (len(gates) for a tuple the engine produced).
C7_MeasureAfterFetchHits ==
    /\ MeasureStep
    /\ \A t \in Task :
          LET tk == tasks[t]
          IN  tk.op = "measure" /\ FetchCalls(KeyOf(tk)) >= 2 =>
                tk.hit = "hit" /\ "simulate" \notin Range(tk.trace)

\* C7, amended: after a generate, or any earlier fetch, of the same circuit, noise and
\* focus_qubit that returned snapshots, measure does not invoke the engine, and the
\* step it returns is the step of the last snapshot of the tuple (len(gates) for a
\* tuple the engine produced).
C7_MeasureAfterReturnedFetchHits ==
    /\ MeasureStep
    /\ \A t \in Task :
          LET tk == tasks[t]
          IN  tk.op = "measure"
                /\ CopiesIn(KeyOf(tk), fetched) > (IF Fetched(tk) THEN 1 ELSE 0) =>
                    tk.hit = "hit" /\ "simulate" \notin Range(tk.trace)

\* measure has returned step len(gates) out of the entry a generate's simulation stored
C7_Witness ==
    \E t \in Task :
        LET tk == tasks[t]
        IN  /\ Returned(tk)
            /\ tk.op = "measure"
            /\ tk.hit = "hit"
            /\ CopiesIn(<<"generate", KeyOf(tk)>>, called) = 1
            /\ CopiesIn(KeyOf(tk), sim_calls) = 1
            /\ Len(tk.circuit.gates) = 2
            /\ tk.ret.step = 2

----
\* the error of the engine is the error of the call, and the key stays out of the cache
EngineErrorSurfaces ==
    \A t \in Task :
        LET tk == tasks[t]
        IN  RaisedBySimulate(tk) =>
              /\ tk.op \in FetchOps
              /\ tk.error # ""
              /\ tk.error = simulate(tk.circuit, tk.noise, tk.focus_qubit).error
              /\ ~InCache(snapshot_cache, KeyOf(tk))

\* C8: an error of the engine during generate, regenerate_from, measure or export
\* reaches the caller unchanged, nothing is cached for the fingerprint, and the next
\* request of the same fingerprint invokes the engine again.
C8_EngineErrorsNotCached ==
    /\ []EngineErrorSurfaces
    /\ [][\A t \in Task :
             tasks[t].pc = "simulate" /\ tasks'[t].status = "raised" =>
                 /\ tasks'[t].error = simulate(tasks[t].circuit, tasks[t].noise,
                                               tasks[t].focus_qubit).error
                 /\ snapshot_cache' = snapshot_cache]_vars
    /\ [][\A t \in Task :
             /\ RaisedBySimulate(tasks[t])
             /\ calls' = calls + 1
             /\ tasks'[t].op \in FetchOps
             /\ tasks'[t].op = "export" => exporter
             /\ KeyOf(tasks'[t]) = KeyOf(tasks[t])
             =>
             /\ tasks'[t].hit = "miss"
             /\ tasks'[t].pc = "simulate"
             /\ sim_calls' = sim_calls (+) SetToBag({KeyOf(tasks[t])})]_vars

\* the engine has raised for the second time for one fingerprint
C8_Witness ==
    \E t \in Task :
        LET tk == tasks[t]
        IN  /\ RaisedBySimulate(tk)
            /\ tk.error = "ValueError"
            /\ CopiesIn(KeyOf(tk), sim_calls) = 2
            /\ snapshot_cache = << >>
            /\ cache_misses = 2

----
\* C9: export on a service without exporter raises before anything else: the engine
\* and the repository are not called, and the cache and its counters are unchanged.
C9_ExportWithoutExporterRaises ==
    [][\A t \in Task :
          /\ ~exporter
          /\ tasks[t].pc = "idle"
          /\ calls' = calls + 1
          /\ tasks'[t].op = "export"
          =>
          /\ tasks'[t].status = "raised"
          /\ tasks'[t].error = "RuntimeError"
          /\ tasks'[t].trace = << >>
          /\ tasks'[t].hit = "none"
          /\ UNCHANGED <<snapshot_cache, cache_hits, cache_misses, sim_calls, repo_calls,
                         repository, fetches>>]_vars

\* export has raised on a service without exporter whose cache holds an entry
C9_Witness ==
    \E t \in Task :
        LET tk == tasks[t]
        IN  /\ ~exporter
            /\ tk.op = "export"
            /\ tk.status = "raised"
            /\ tk.error = "RuntimeError"
            /\ snapshot_cache # << >>
            /\ cache_misses = 1
            /\ BagCardinality(sim_calls) = 1
            /\ repo_calls = 0

----
\* the calls export has awaited once its snapshots were at hand
AfterFetch(trace) == SelectSeq(trace, LAMBDA step : step # "simulate")

\* C10: export calls the repository's save only when share is true. With share false
\* the repository is never called and the share id returned is None; with share true
\* save is called exactly once, after both exporter calls, with the snapshots generate
\* returned, and its id is returned.
C10_ExportSavesOnlyWhenShared ==
    /\ [] \A t \in Task :
            LET tk == tasks[t]
            IN  tk.op = "export" =>
                  /\ ~tk.share =>
                        /\ "repository_save" \notin Range(tk.trace)
                        /\ IsNone(tk.saved)
                        /\ Returned(tk) => IsNone(tk.ret.share_id)
                  /\ "repository_save" \in Range(tk.trace) =>
                        /\ tk.share
                        /\ AfterFetch(tk.trace)
                              = <<"export_qasm", "export_json", "repository_save">>
                        /\ tk.saved = Some(tk.snapshots)
                  /\ tk.share /\ Returned(tk) =>
                        /\ "repository_save" \in Range(tk.trace)
                        /\ tk.ret.snapshots = tk.snapshots
                        /\ tk.ret.share_id = Some(Len(repository))
                        /\ repository[Len(repository)].snapshots = tk.snapshots
                        /\ repository[Len(repository)].circuit = tk.circuit
    /\ [][\A t \in Task :
             tasks'[t].op = "export" /\ ~tasks'[t].share =>
                 repo_calls' = repo_calls /\ repository' = repository]_vars
    /\ [][\A t \in Task :
             tasks[t].op = "export" /\ tasks'[t].op = "export" /\ tasks[t].share
                 /\ repo_calls' # repo_calls =>
                 /\ tasks[t].pc = "export_json"
                 /\ repo_calls' = repo_calls + 1]_vars

\* an export with share has returned the id of the row that holds its snapshots
C10_Witness ==
    \E t \in Task :
        LET tk == tasks[t]
        IN  /\ Returned(tk)
            /\ tk.op = "export"
            /\ tk.share
            /\ tk.hit = "miss"
            /\ tk.ret.share_id = Some(1)
            /\ repo_calls = 1
            /\ Len(repository) = 1
            /\ repository[1].snapshots = tk.ret.snapshots
            /\ Len(tk.ret.snapshots) = 3

----
\* the engine has run on mutable_circuit and returned its snapshots
EngineReturned == ~IsNone(engine_out) /\ Get(engine_out).result.error = ""

\* the engine has run on mutable_circuit and raised
EngineRaised == ~IsNone(engine_out) /\ Get(engine_out).result.error # ""

\* C12: simulate returns len(circuit.gates) + 1 snapshots with steps 0, 1, ...,
\* len(circuit.gates) in order; snapshot 0 is the initial all-zero state with metadata
\* gate = INIT, and snapshot k >= 1 carries the name of the k-th gate in its metadata.
C12_OneSnapshotPerStep ==
    EngineReturned =>
        LET snapshots == Get(engine_out).result.snapshots
            gates == mutable_circuit.gates
        IN  /\ Len(snapshots) = Len(gates) + 1
            /\ \A i \in 1..Len(snapshots) : snapshots[i].step = i - 1
            /\ snapshots[1].density_matrix = Some(AllZero)
            /\ snapshots[1].statevector = Some(AllZero)
            /\ snapshots[1].metadata.gate = "INIT"
            /\ \A k \in 1..Len(gates) : snapshots[k + 1].metadata.gate = gates[k].name

\* the engine has returned the three snapshots of a two-gate circuit
C12_Witness ==
    /\ EngineReturned
    /\ Len(mutable_circuit.gates) = 2
    /\ Len(Get(engine_out).result.snapshots) = 3
    /\ Get(engine_out).result.snapshots[3].metadata.gate = "CX"

----
\* the fingerprints that were requested (generate, regenerate_from, measure, export) or
\* saved (save, and the save of an export that shares)
RequestedOrSaved ==
    {call[2] : call \in BagToSet(called)}
        \cup {cache_key(r.circuit, None, r.focus_qubit) : r \in {q \in stored : IsNone(q.noise)}}

\* C11: the cache has no eviction: no operation removes an entry, so the number of
\* entries never decreases, and it never exceeds the number of distinct fingerprints
\* that were requested or saved.
C11_NoEviction ==
    /\ [](/\ DOMAIN snapshot_cache \subseteq RequestedOrSaved
          /\ Cardinality(DOMAIN snapshot_cache) <= Cardinality(RequestedOrSaved))
    /\ [][/\ DOMAIN snapshot_cache \subseteq DOMAIN snapshot_cache'
          /\ Cardinality(DOMAIN snapshot_cache') >= Cardinality(DOMAIN snapshot_cache)]_vars

\* two calls of different fingerprints have left two entries
C11_Witness ==
    /\ calls = 2
    /\ Cardinality(DOMAIN snapshot_cache) = 2
    /\ Cardinality(RequestedOrSaved) = 2

----
ChannelKinds == {"depolarizing", "amplitude_damping", "phase_damping"}

\* a noise channel is among the operations that made the matrix
HasChannel(matrix) == \E n \in 1..Len(matrix) : matrix[n][1] \in ChannelKinds

\* C13: the pure-state track is discarded for good once noise was applied: a snapshot
\* has a state vector exactly when no noise channel was applied at or before its step,
\* no snapshot after one without a state vector has one, and every snapshot carries a
\* density matrix.
C13_StateVectorUntilNoise ==
    EngineReturned =>
        LET snapshots == Get(engine_out).result.snapshots
        IN  /\ \A i \in 1..Len(snapshots) :
                  /\ ~IsNone(snapshots[i].density_matrix)
                  /\ ~IsNone(snapshots[i].statevector)
                        <=> ~HasChannel(Get(snapshots[i].density_matrix))
            /\ \A i, j \in 1..Len(snapshots) :
                  i < j /\ IsNone(snapshots[i].statevector)
                      => IsNone(snapshots[j].statevector)

\* a run under noise: the initial snapshot has a state vector, the later ones have not
C13_Witness ==
    /\ EngineReturned
    /\ Len(Get(engine_out).result.snapshots) = 3
    /\ ~IsNone(Get(engine_out).result.snapshots[1].statevector)
    /\ IsNone(Get(engine_out).result.snapshots[2].statevector)
    /\ IsNone(Get(engine_out).result.snapshots[3].statevector)

----
PseudoGates == NoisePlaceholders \cup MeasureAnnotations

\* C14: noise and measurement annotation pseudo-gates have no effect on the evolution:
\* for every circuit and every noise configuration, the density matrix and the state
\* vector of the snapshot of a pseudo-gate step equal those of the preceding snapshot.
C14_PseudoGatesHaveNoEffect ==
    EngineReturned =>
        LET snapshots == Get(engine_out).result.snapshots
            gates == mutable_circuit.gates
        IN  \A k \in 1..Len(gates) :
                Upper(gates[k].name) \in PseudoGates =>
                    /\ snapshots[k + 1].density_matrix = snapshots[k].density_matrix
                    /\ snapshots[k + 1].statevector = snapshots[k].statevector

\* C14 with the noise off: a pseudo-gate step leaves the matrix and the vector alone
C14_PseudoGatesHaveNoEffectWithoutNoise ==
    EngineReturned /\ ~Noisy(Get(engine_out).noise) =>
        LET snapshots == Get(engine_out).result.snapshots
            gates == mutable_circuit.gates
        IN  \A k \in 1..Len(gates) :
                Upper(gates[k].name) \in PseudoGates =>
                    /\ snapshots[k + 1].density_matrix = snapshots[k].density_matrix
                    /\ snapshots[k + 1].statevector = snapshots[k].statevector

----
TwoQubitNames == {"CX", "CNOT", "CZ"}

WrongArity(gate) ==
    Upper(gate.name) \in TwoQubitNames /\ (Len(gate.targets) # 1 \/ Len(gate.controls) # 1)

Overlapping(gate) ==
    /\ Upper(gate.name) \in TwoQubitNames
    /\ ~WrongArity(gate)
    /\ gate.targets[1] = gate.controls[1]

Malformed(gate) == WrongArity(gate) \/ Overlapping(gate)

\* C15: a CX or CZ gate with a wrong number of targets or controls, or with its control
\* on its target, makes simulate raise before any state evolution is computed, wherever
\* the gate stands in the circuit, and no snapshots are returned.
C15_MalformedRaisesBeforeEvolution ==
    ~IsNone(engine_out)
    /\ (\E k \in 1..Len(mutable_circuit.gates) : Malformed(mutable_circuit.gates[k]))
        => /\ EngineRaised
           /\ Get(engine_out).result.snapshots = << >>
           /\ Get(engine_out).result.evolved = 0

\* C15 without the order: a malformed CX or CZ makes simulate raise and return nothing
C15_MalformedRaises ==
    ~IsNone(engine_out)
    /\ (\E k \in 1..Len(mutable_circuit.gates) : Malformed(mutable_circuit.gates[k]))
        => /\ EngineRaised
           /\ Get(engine_out).result.snapshots = << >>

----
\* the gate at which the engine raised
Offending == mutable_circuit.gates[Get(engine_out).result.evolved + 1]

InVocabulary(gate) ==
    Upper(gate.name) \in SingleQubitNames \cup RotationNames \cup TwoQubitNames
                            \cup {"RESET"} \cup PseudoGates

\* C16: the engine reports three distinguishable error kinds: a gate name outside the
\* vocabulary fails with UnsupportedGate naming the gate, a wrong target or control
\* count of CX or CZ with InvalidGateArity, an overlapping control and target with
\* InvalidGateTopology.
C16_ThreeErrorKinds ==
    EngineRaised /\ Get(engine_out).result.error # "CircuitError" =>
        LET result == Get(engine_out).result
        IN  /\ ~InVocabulary(Offending) =>
                  /\ result.error = "UnsupportedGate"
                  /\ \E n \in 1..Len(result.message) : result.message[n] = Offending.name
            /\ WrongArity(Offending) => result.error = "InvalidGateArity"
            /\ Overlapping(Offending) => result.error = "InvalidGateTopology"

\* C16 as the code has it: the three cases raise ValueError with three messages, the
\* one of the unsupported gate naming it
C16_ThreeMessages ==
    EngineRaised /\ Get(engine_out).result.error # "CircuitError" =>
        LET result == Get(engine_out).result
        IN  /\ result.error = "ValueError"
            /\ ~InVocabulary(Offending) =>
                  result.message = <<"Unsupported gate: ", Offending.name>>
            /\ WrongArity(Offending) =>
                  \E name \in {"CX", "CZ"} :
                      result.message = <<name \o " requires one control and one target">>
            /\ Overlapping(Offending) =>
                  \E name \in {"CX", "CZ"} :
                      result.message = <<"Control and target must be distinct for " \o name>>

----
Min(a, b) == IF a < b THEN a ELSE b

Max(a, b) == IF a > b THEN a ELSE b

\* C17: the focus qubit is clamped into [0, qubit_count): for a requested focus_qubit f
\* (None meaning 0) every snapshot records min(max(f, 0), qubit_count - 1).
C17_FocusClamped ==
    EngineReturned =>
        LET snapshots == Get(engine_out).result.snapshots
            f == OrZero(Get(engine_out).focus_qubit)
        IN  \A i \in 1..Len(snapshots) :
                snapshots[i].focus_qubit = Min(Max(f, 0), mutable_circuit.qubit_count - 1)

\* C17 as the code has it: a focus outside [0, qubit_count) is replaced by 0
C17_FocusInRangeOrZero ==
    EngineReturned =>
        LET snapshots == Get(engine_out).result.snapshots
            f == OrZero(Get(engine_out).focus_qubit)
        IN  \A i \in 1..Len(snapshots) :
                snapshots[i].focus_qubit =
                    IF 0 <= f /\ f < mutable_circuit.qubit_count THEN f ELSE 0

----
ChannelRank(kind) ==
    CASE kind = "depolarizing" -> 1
      [] kind = "amplitude_damping" -> 2
      [] kind = "phase_damping" -> 3

StrengthOf(noise, kind) ==
    CASE kind = "depolarizing" -> noise.depolarizing
      [] kind = "amplitude_damping" -> noise.amplitude_damping
      [] kind = "phase_damping" -> noise.phase_damping

\* the operations step k added to the density matrix
AddedAt(snapshots, k) ==
    SubSeq(Get(snapshots[k + 1].density_matrix),
           Len(Get(snapshots[k].density_matrix)) + 1,
           Len(Get(snapshots[k + 1].density_matrix)))

\* the operations of `added` are the unitary of the gate, if it has one, and then channels
UnitaryFirst(added, gate) ==
    /\ Upper(gate.name) \notin PseudoGates =>
          /\ Len(added) >= 1
          /\ added[1] = <<"gate", Upper(gate.name), gate.targets, gate.controls,
                          gate.parameters>>
    /\ \A n \in 1..Len(added) :
          added[n][1] \notin ChannelKinds => n = 1 /\ Upper(gate.name) \notin PseudoGates

\* the channels of `added` go qubit by qubit and, on a qubit, depolarizing, amplitude
\* damping, phase damping
ChannelsInOrder(added) ==
    \A m, n \in 1..Len(added) :
        m < n /\ added[m][1] \in ChannelKinds /\ added[n][1] \in ChannelKinds =>
            \/ added[m][3] < added[n][3]
            \/ /\ added[m][3] = added[n][3]
               /\ ChannelRank(added[m][1]) < ChannelRank(added[n][1])

\* a channel is in `added` exactly for a qubit of the circuit and a strength above 0
ChannelsOfPositiveStrength(added, noise, num_qubits) ==
    /\ \A n \in 1..Len(added) :
          added[n][1] \in ChannelKinds =>
              /\ added[n][3] \in 0..(num_qubits - 1)
              /\ ~IsNone(StrengthOf(noise, added[n][1]))
              /\ Get(StrengthOf(noise, added[n][1])) > 0
              /\ added[n][2] = Get(StrengthOf(noise, added[n][1]))
    /\ \A qubit \in 0..(num_qubits - 1), kind \in ChannelKinds :
          ~IsNone(StrengthOf(noise, kind)) /\ Get(StrengthOf(noise, kind)) > 0 =>
              \E n \in 1..Len(added) : added[n][1] = kind /\ added[n][3] = qubit

\* C18: with noise enabled each gate step applies the unitary of the gate first and then,
\* to each qubit in turn, depolarizing, amplitude damping and phase damping, a channel
\* whose strength is absent or 0 not being applied; with noise absent or not enabled no
\* channel is applied at any step.
C18_UnitaryThenChannelsInOrder ==
    EngineReturned =>
        LET snapshots == Get(engine_out).result.snapshots
            noise == Get(engine_out).noise
            gates == mutable_circuit.gates
        IN  \A k \in 1..Len(gates) :
                LET added == AddedAt(snapshots, k)
                IN  /\ SubSeq(Get(snapshots[k + 1].density_matrix), 1,
                              Len(Get(snapshots[k].density_matrix)))
                          = Get(snapshots[k].density_matrix)
                    /\ UnitaryFirst(added, gates[k])
                    /\ IF IsNone(noise) \/ ~enabled(Get(noise))
                       THEN \A n \in 1..Len(added) : added[n][1] \notin ChannelKinds
                       ELSE /\ ChannelsInOrder(added)
                            /\ ChannelsOfPositiveStrength(added, Get(noise),
                                                          mutable_circuit.qubit_count)

\* a gate step on two qubits under the three channels: the unitary and six channels
C18_Witness ==
    /\ EngineReturned
    /\ Get(engine_out).noise = Some(NoiseAll)
    /\ mutable_circuit.qubit_count = 2
    /\ Len(mutable_circuit.gates) >= 1
    /\ Upper(mutable_circuit.gates[1].name) = "H"
    /\ Len(AddedAt(Get(engine_out).result.snapshots, 1)) = 7

----
\* C19: after any sequence of Circuit append, insert and remove every gate's target and
\* control indices lie in [0, qubit_count): a gate with an index outside is rejected
\* where the circuit is built and never reaches the engine.
C19_IndicesInRange ==
    \A k \in 1..Len(mutable_circuit.gates) :
        Qubits(mutable_circuit.gates[k]) \subseteq 0..(mutable_circuit.qubit_count - 1)

----
InUnit(component) == -100 <= component /\ component <= 100

\* C20: every BlochVector has x, y and z within [-1, 1]: a component outside is clamped at
\* construction, for the vectors the engine builds and for those rebuilt when a saved
\* circuit is loaded.
C20_BlochComponentsClamped ==
    ~IsNone(bloch_vector) =>
        /\ InUnit(Get(bloch_vector).x)
        /\ InUnit(Get(bloch_vector).y)
        /\ InUnit(Get(bloch_vector).z)

----
\* the maximal runs of identical adjacent outcomes, as <<first index, last index>>
MaximalRuns(sequence) ==
    {run \in (1..Len(sequence)) \X (1..Len(sequence)) :
        /\ run[1] <= run[2]
        /\ \A i \in run[1]..run[2] : sequence[i] = sequence[run[1]]
        /\ run[1] = 1 \/ sequence[run[1] - 1] # sequence[run[1]]
        /\ run[2] = Len(sequence) \/ sequence[run[2] + 1] # sequence[run[2]]}

RunLength(run) == run[2] - run[1] + 1

\* C22: for every non-empty list of samples the switches computed by the run analysis
\* satisfy switches + 1 = number of maximal runs of identical adjacent outcomes; for the
\* empty list the analysis returns longest run 0, empty symbol and 0 switches.
C22_SwitchesCountRuns ==
    ~IsNone(run_analysis) =>
        IF sample_sequence = << >>
        THEN Get(run_analysis) = <<0, "", 0>>
        ELSE Get(run_analysis)[3] + 1 = Cardinality(MaximalRuns(sample_sequence))

\* a list of three runs was analysed
C22_Witness ==
    /\ ~IsNone(run_analysis)
    /\ Cardinality(MaximalRuns(sample_sequence)) = 3
    /\ Get(run_analysis)[3] = 2

\* C23: for every non-empty list of samples longest_run is the length of the longest
\* contiguous run of identical outcomes and longest_symbol is the outcome of the
\* earliest run of that length.
C23_LongestRunFirstSeen ==
    ~IsNone(run_analysis) /\ sample_sequence # << >> =>
        \E run \in MaximalRuns(sample_sequence) :
            /\ \A other \in MaximalRuns(sample_sequence) :
                  \/ RunLength(other) < RunLength(run)
                  \/ RunLength(other) = RunLength(run) /\ run[1] <= other[1]
            /\ Get(run_analysis)[1] = RunLength(run)
            /\ Get(run_analysis)[2] = sample_sequence[run[1]]

\* two runs of the longest length, of different outcomes: the earlier one is reported
C23_Witness ==
    /\ ~IsNone(run_analysis)
    /\ sample_sequence = <<"minus", "minus", "plus", "plus", "minus">>
    /\ Get(run_analysis) = <<2, "minus", 2>>

----
CircuitBell == Circuit(2, <<GateH, GateCX>>, None)

\* C26: for the 2-qubit circuit H(0), CX(control 0, target 1) without noise the final
\* snapshots for focus qubit 0 and focus qubit 1 record focus_qubit 0 and 1 and have equal
\* purity 1/2: the reduced state is maximally mixed, the Bloch vector (0, 0, 0) and the
\* probabilities (1/2, 1/2).
C26_BellReducedStatesMixed ==
    (/\ EngineReturned
     /\ mutable_circuit = CircuitBell
     /\ IsNone(Get(engine_out).noise)
     /\ Get(engine_out).focus_qubit \in {Some(0), Some(1)})
        => LET last == final(Get(engine_out).result.snapshots)
           IN  /\ last.focus_qubit = Get(Get(engine_out).focus_qubit)
               /\ snapshot_purity(last, 2) = Unit \div 2
               /\ snapshot_bloch(last, 2) = BlochVector(0, 0, 0)
               /\ snapshot_probabilities(last, 2) = <<Unit \div 2, Unit \div 2>>

\* the engine has run on the Bell circuit without noise for focus qubit 1
C26_Witness ==
    /\ EngineReturned
    /\ mutable_circuit = CircuitBell
    /\ IsNone(Get(engine_out).noise)
    /\ Get(engine_out).focus_qubit = Some(1)
    /\ final(Get(engine_out).result.snapshots).focus_qubit = 1
    /\ snapshot_purity(final(Get(engine_out).result.snapshots), 2) = Unit \div 2

----
\* the call of measure that returned last
LastMeasure == Get(measurement)

\* C21: for every shots in 0..N measure returns exactly shots samples, each plus or minus,
\* with counts[plus] + counts[minus] = shots and probabilities[plus] +
\* probabilities[minus] = 1; when the projected probability p_plus is 1 (axis Z on the
\* Bloch vector (0, 0, 1)) every sample is plus.
C21_MeasureSamples ==
    ~IsNone(measurement) =>
        LET result == LastMeasure.ret
        IN  /\ Len(result.samples) = LastMeasure.shots
            /\ \A i \in 1..Len(result.samples) : result.samples[i] \in {"plus", "minus"}
            /\ result.counts.plus + result.counts.minus = LastMeasure.shots
            /\ result.counts.plus = CountOf(result.samples, "plus")
            /\ result.probabilities.plus + result.probabilities.minus = Unit
            /\ result.probabilities.plus = Unit =>
                  \A i \in 1..Len(result.samples) : result.samples[i] = "plus"
            /\ (LastMeasure.circuit = CircuitZero /\ Upper(LastMeasure.basis) = "Z") =>
                  result.probabilities.plus = Unit

\* MaxShots shots along Z on the zero state: every sample is plus
C21_Witness ==
    /\ ~IsNone(measurement)
    /\ LastMeasure.circuit = CircuitZero
    /\ LastMeasure.basis = "Z"
    /\ LastMeasure.shots = MaxShots
    /\ LastMeasure.ret.probabilities.plus = Unit
    /\ LastMeasure.ret.counts.plus = MaxShots

\* a measure of probability 1/2 that returned both outcomes
C21_WitnessMixed ==
    /\ ~IsNone(measurement)
    /\ LastMeasure.ret.probabilities.plus = Unit \div 2
    /\ LastMeasure.ret.counts.plus = 1
    /\ LastMeasure.ret.counts.minus = 1

SameMeasure(a, b) ==
    /\ a.circuit = b.circuit
    /\ a.basis = b.basis
    /\ a.shots = b.shots
    /\ a.noise = b.noise
    /\ a.focus_qubit = b.focus_qubit
    /\ a.seed = b.seed

\* C24: sampling is deterministic given the seed: two calls of measure with the same
\* circuit, basis, shots, noise, focus_qubit and the same seed other than None return the
\* same samples, counts and statistics, whatever requests ran in between and whether or
\* not the snapshots came from the cache.
C24_SeededMeasureDeterministic ==
    [][(/\ NoDirectSave
        /\ ~IsNone(measurement)
        /\ ReturnsIn(1)
        /\ tasks'[1].op = "measure"
        /\ ~IsNone(tasks'[1].seed)
        /\ SameMeasure(LastMeasure, tasks'[1]))
            => tasks'[1].ret = LastMeasure.ret]_vars

\* C24 with no save in between: seeded measures of one request agree
C24_SeededMeasureDeterministicWithoutSave ==
    [][(/\ repo_calls = 0
        /\ ~IsNone(measurement)
        /\ ReturnsIn(1)
        /\ tasks'[1].op = "measure"
        /\ ~IsNone(tasks'[1].seed)
        /\ SameMeasure(LastMeasure, tasks'[1]))
            => tasks'[1].ret = LastMeasure.ret]_vars

----
\* C27: when save is only called with snapshots the service returned itself, the entry
\* under a key is the engine's result for a request of that key; in particular, after
\* export(circuit, noise=N enabled, share=True), generate(circuit, noise=None, same
\* focus_qubit) returns the simulation without noise.
C27_CacheHoldsEngineResult ==
    NoDirectSave =>
        /\ \A key \in DOMAIN snapshot_cache :
              \E s \in stored :
                  /\ cache_key(s.circuit, s.noise, s.focus_qubit) = key
                  /\ snapshot_cache[key] = simulate(s.circuit, s.noise, s.focus_qubit).snapshots
        /\ \A t \in Task :
              LET tk == tasks[t]
              IN  Returned(tk) /\ tk.op = "generate" /\ IsNone(tk.noise) =>
                      tk.ret = simulate(tk.circuit, None, tk.focus_qubit).snapshots

\* C27 where no export shares: every entry is the engine's result for its key
C27_CacheHoldsEngineResultWithoutShare ==
    repo_calls = 0 => C27_CacheHoldsEngineResult

----
\* the call of task t raised out of its await of repository.save
RaisedBySave(tk) == tk.status = "raised" /\ tk.error = "RepositoryError"

\* C28: a save that fails leaves the service unchanged: when repository.save raises inside
\* SnapshotService.save, called directly or by export with share, the cache holds exactly
\* the entries it held before the call. Stated for the first call made on the service,
\* whose cache was empty before it: a failed save leaves it empty, and a failed sharing
\* export leaves at most the entry its own fetch stored.
C28_FailedSaveLeavesCache ==
    \A t \in Task :
        LET tk == tasks[t]
        IN  calls = 1 /\ RaisedBySave(tk) =>
                /\ tk.op = "save" => snapshot_cache = << >>
                /\ tk.op = "export" => DOMAIN snapshot_cache \subseteq {KeyOf(tk)}

\* C28 for a sharing export without noise: the failed save leaves the fetched entry alone
C28_FailedShareWithoutNoise ==
    \A t \in Task :
        LET tk == tasks[t]
        IN  calls = 1 /\ RaisedBySave(tk) /\ tk.op = "export" /\ IsNone(tk.noise) =>
                /\ DOMAIN snapshot_cache = {KeyOf(tk)}
                /\ snapshot_cache[KeyOf(tk)] =
                       simulate(tk.circuit, None, tk.focus_qubit).snapshots

----
\* the request generate serves when the owner hands it mutable_circuit
CurrentRequest(tk) == Request(mutable_circuit, tk.noise, tk.focus_qubit)

\* C29: the cache key is recomputed from the circuit's current contents on every
\* request: generate on the Circuit object its owner edits with append, insert and remove
\* is a miss exactly when no request of the current fingerprint was stored, so it is a
\* miss after an edit that changes the fingerprint and a hit on the earlier entry after
\* edits that restore an earlier gate list, and either way it returns the
\* len(gates) + 1 snapshots of the current gate list.
C29_KeyFromCurrentContents ==
    [][/\ (calls' = calls + 1 /\ tasks'[1].op = "generate") =>
              LET tk == tasks'[1]
                  known == \E s \in stored : Agree(s, CurrentRequest(tk))
              IN  /\ tk.circuit = mutable_circuit
                  /\ (tk.hit = "hit") <=> known
                  /\ (tk.hit = "miss") <=> ~known
                  /\ known =>
                        /\ tk.status = "returned"
                        /\ tk.ret = snapshot_cache[KeyOf(tk)]
                        /\ tk.ret = simulate(mutable_circuit, tk.noise, tk.focus_qubit).snapshots
                        /\ Len(tk.ret) = Len(mutable_circuit.gates) + 1
                  /\ ~known => cache_misses' = cache_misses + 1
       /\ (tasks[1].pc = "simulate" /\ ReturnsIn(1)) =>
              /\ tasks'[1].ret =
                     simulate(mutable_circuit, tasks'[1].noise, tasks'[1].focus_qubit).snapshots
              /\ Len(tasks'[1].ret) = Len(mutable_circuit.gates) + 1]_vars

\* the second generate, after an edit, missed: the cache holds the entries of two gate
\* lists and the caller the snapshots of the current one
C29_Witness ==
    /\ calls = 2
    /\ edited_at = 1
    /\ Returned(tasks[1])
    /\ tasks[1].hit = "miss"
    /\ cache_misses = 2
    /\ Cardinality(DOMAIN snapshot_cache) = 2
    /\ Len(mutable_circuit.gates) = 2
    /\ Len(tasks[1].ret) = 3

\* the second generate, after edits that restored the gate list of the first, hit
C29_WitnessRestored ==
    /\ calls = 2
    /\ edited_at = 1
    /\ Returned(tasks[1])
    /\ tasks[1].hit = "hit"
    /\ cache_hits = 1
    /\ cache_misses = 1
    /\ Len(tasks[1].ret) = Len(mutable_circuit.gates) + 1
    /\ Len(mutable_circuit.gates) = 1

----
\* the call made last loaded the row that the save `args` wrote
Loads(call, args) ==
    /\ call.op = "load"
    /\ call.adapter = args.adapter
    /\ call.id = args.id

\* what the port's load returns: circuit, snapshots, name, focus_qubit
RoundTrips(ret, args) ==
    /\ Len(ret) = 4
    /\ ret[3] = args.name
    /\ ret[4] = args.focus_qubit
    /\ ret[1].qubit_count = args.circuit.qubit_count
    /\ ret[1].global_phase = args.circuit.global_phase
    /\ ret[1].gates = args.circuit.gates
    /\ Len(ret[2]) = Len(args.snapshots)
    /\ \A i \in 1..Len(ret[2]) :
          /\ i <= Len(args.snapshots)
          /\ ret[2][i].step = args.snapshots[i].step
          /\ ret[2][i].focus_qubit = args.snapshots[i].focus_qubit

\* C25: save followed by load round-trips name, focus_qubit, the circuit's qubit_count,
\* global_phase and ordered gates, and every snapshot's step and focus_qubit, for every
\* repository adapter, the SQLite one and the in-memory one, each implementing the save
\* and load of the port: a save with the port's keywords returns an id, and the load of
\* that id returns the four values saved.
C25_RepositoryRoundTrip ==
    ~IsNone(repository_call) =>
        LET call == Get(repository_call)
        IN  /\ call.op = "save" => call.error = ""
            /\ \A k \in 1..Len(saved_args) :
                  Loads(call, saved_args[k]) =>
                      /\ call.error = ""
                      /\ RoundTrips(Get(call.ret), saved_args[k])

\* C25 for the SQLite adapter alone
C25_SqliteRoundTrip ==
    ~IsNone(repository_call) /\ Get(repository_call).adapter = "sqlite" =>
        C25_RepositoryRoundTrip

\* the SQLite adapter has loaded a two-qubit circuit saved with a name and a focus qubit
C25_SqliteLoaded ==
    /\ ~IsNone(repository_call)
    /\ Get(repository_call).adapter = "sqlite"
    /\ Get(repository_call).op = "load"
    /\ Get(repository_call).error = ""
    /\ Get(Get(repository_call).ret)[3] = Some("bell")
    /\ Get(Get(repository_call).ret)[4] = Some(1)
    /\ Len(Get(Get(repository_call).ret)[1].gates) = 2

----
\* the services the calls of get_snapshot_service have returned
ServicesReturned ==
    {Get(handlers[t].ret) : t \in {u \in Task : /\ handlers[u].op = "get_snapshot_service"
                                                 /\ handlers[u].status = "returned"}}

\* C30: get_snapshot_service constructs the SnapshotService once per process: every call,
\* the calls whose first executions interleave while the repository is still connecting
\* included, returns the same instance, so there is one cache and one set of counters,
\* and the repository's database connect runs at most once while it is connected.
C30_OneServicePerProcess ==
    /\ constructed <= 1
    /\ Cardinality(ServicesReturned) <= 1
    /\ \A t \in Task :
          handlers[t].op = "get_snapshot_service" /\ handlers[t].status = "returned" =>
              handlers[t].ret = service_global
    /\ db_connects <= 1

\* C30 for calls made one at a time: one service, one connect of the database
C30_OneServiceSequential ==
    (\A t \in Task : t # 1 => handlers[t].op = "none") => C30_OneServicePerProcess

\* two calls of get_snapshot_service that overlapped have returned
C30_TwoCallsReturned ==
    /\ \A t \in Task : handlers[t].op = "get_snapshot_service" /\ handlers[t].status = "returned"
    /\ requests_made = NumTasks

====
